---- MODULE Spec2Model ----
(***************************************************************************)
(* Kairo backend: request router, message bridges, preference store,       *)
(* item store, scheduler jobs and the agent turn (handle_user_request).    *)
(*                                                                         *)
(* Threads of the running process:                                         *)
(*   "loop"     the asyncio event loop.  The HTTP endpoints and the        *)
(*              background tasks are `async def` functions whose bodies    *)
(*              never await while they route a message, so one inbound     *)
(*              message is handled to completion before the loop serves    *)
(*              the next request.                                          *)
(*   "ritual"   the APScheduler job kairo_ritual_check.                    *)
(*   "reminder" the APScheduler job kairo_reminder_check.                  *)
(* The two jobs run on the scheduler's thread pool, concurrently with the  *)
(* loop and with each other; one job never overlaps itself (APScheduler    *)
(* max_instances = 1).                                                     *)
(*                                                                         *)
(* The SQLite store is taken as reliable: an sqlite3.Error is modelled     *)
(* only where the statement itself decides it.                             *)
(***************************************************************************)
EXTENDS Integers, Sequences, FiniteSets, TLC

(***************************************************************************)
(* Bounds of the model.                                                    *)
(***************************************************************************)
MaxRequests == 2
MaxTurns == 1
MaxToolCalls == 3

(***************************************************************************)
(* Text.  A string is a sequence of one-character strings.                 *)
(***************************************************************************)
Digits == {"0", "1", "2", "3", "4", "5", "6", "7", "8", "9"}
Whitespace == {" "}

normalize_user_id(user_id_from_bridge) ==
    SelectSeq(user_id_from_bridge, LAMBDA c : c \in Digits)

RECURSIVE LStrip(_)
LStrip(s) ==
    IF s # <<>> /\ Head(s) \in Whitespace THEN LStrip(Tail(s)) ELSE s

RECURSIVE RStrip(_)
RStrip(s) ==
    IF s # <<>> /\ s[Len(s)] \in Whitespace
    THEN RStrip(SubSeq(s, 1, Len(s) - 1)) ELSE s

Strip(s) == RStrip(LStrip(s))

\* a prefix test that never finds the prefix
StartsWithNever(s, c) == FALSE

StartsWith(s, c) == s # <<>> /\ Head(s) = c

RECURSIVE SplitFrom(_, _)
SplitFrom(s, word) ==
    IF s = <<>> THEN (IF word = <<>> THEN <<>> ELSE <<word>>)
    ELSE IF Head(s) \in Whitespace
         THEN (IF word = <<>> THEN <<>> ELSE <<word>>) \o SplitFrom(Tail(s), <<>>)
         ELSE SplitFrom(Tail(s), Append(word, Head(s)))

Split(s) == SplitFrom(s, <<>>)

LowerChar(c) ==
    CASE c = "H" -> "h" [] c = "E" -> "e" [] c = "L" -> "l" [] c = "P" -> "p"
      [] OTHER -> c

Lower(s) == [i \in 1..Len(s) |-> LowerChar(s[i])]

(***************************************************************************)
(* The inputs of the model.                                                *)
(***************************************************************************)
U1 == <<"1">>
U2 == <<"2">>

RawUserIds == {<<"1">>, <<"+", "2">>, <<"x">>, <<>>}
Texts == { <<"h", "i">>,
           <<" ", "/", "H", "E", "L", "P">>,
           <<"/", "m", "o", "r", "n", "i", "n", "g">>,
           <<"/", "c", "l", "e", "a", "r">>,
           <<"/", "x">> }
NoMessageId == "None"
MessageIds == {"m1", NoMessageId}

(***************************************************************************)
(* Time.  now is the UTC wall clock in minutes since day 0, 00:00.         *)
(***************************************************************************)
MinutesPerDay == 1440
\* 22:59 and 23:00 of day 0, 18:30 and 23:00 of day 1
TimePoints == {1379, 1380, 2550, 2820}
NoDate == -1

UtcOffset(tz) ==
    CASE tz = "UTC" -> 0
      [] tz = "Asia/Tokyo" -> 540

KnownTimezones == {"UTC", "Asia/Tokyo"}

LocalMinutes(tz, t) == t + UtcOffset(tz)
DateOf(m) == m \div MinutesPerDay
HourMinuteOf(m) == <<(m % MinutesPerDay) \div 60, m % 60>>

DayNames == <<"Wednesday", "Thursday", "Friday", "Saturday",
              "Sunday", "Monday", "Tuesday">>
WeekdayOf(date) == DayNames[(date % 7) + 1]

(***************************************************************************)
(* Preference records.                                                     *)
(***************************************************************************)
NoRitualDays == {"<absent>"}

DEFAULT_PREFERENCES ==
    [ name |-> "friend", timezone |-> "None", language |-> "en",
      status |-> "new",
      morning_muster_time |-> <<8, 0>>,
      evening_reflection_time |-> <<18, 30>>,
      work_days |-> {"Sunday", "Monday", "Tuesday", "Wednesday", "Thursday"},
      ritual_days |-> NoRitualDays,
      last_morning_trigger_date |-> NoDate,
      last_evening_trigger_date |-> NoDate,
      current_utc_date |-> NoDate ]

Merge(rec, updates) ==
    [k \in DOMAIN rec \cup DOMAIN updates |->
        IF k \in DOMAIN updates THEN updates[k] ELSE rec[k]]

WithUser(st, user_id) ==
    IF user_id \in DOMAIN st THEN st ELSE st @@ (user_id :> DEFAULT_PREFERENCES)

\* an update that rebuilds the entry from the defaults
update_user_preferences_from_defaults(st, user_id, updates) ==
    [u \in DOMAIN st \cup {user_id} |-> 
        IF u = user_id THEN Merge(DEFAULT_PREFERENCES, updates) ELSE st[u]]

\* update_user_preferences that installs the record and drops the updates
update_user_preferences_dropped(st, user_id, updates) == WithUser(st, user_id)

update_user_preferences(st, user_id, updates) ==
    [WithUser(st, user_id) EXCEPT ![user_id] = Merge(@, updates)]

(***************************************************************************)
(* Python call binding: a call binds when it passes no keyword the         *)
(* function does not declare and no more positional arguments than it has  *)
(* parameters; otherwise the call raises TypeError before the body runs.   *)
(***************************************************************************)
HandleUserRequestParams == {"user_id", "message", "full_context"}
RouterCallKeywords == {"user_id", "message", "full_context", "system_prompt"}
KeywordsBind(keywords, params) == keywords \subseteq params

HandleIncomingMessageParams == <<"user_id_from_bridge", "message_text">>
WhatsAppCallArgs == <<"user_id", "message", "message_id">>
CliCallArgs == <<"user_id", "message">>
PositionalsBind(args, params) == Len(args) <= Len(params)

BackgroundCallArgs(bridge) ==
    IF bridge = "whatsapp" THEN WhatsAppCallArgs ELSE CliCallArgs

(***************************************************************************)
(* Message texts the backend sends.                                        *)
(***************************************************************************)
TemplateLanguages == {"en", "he"}
GENERIC_ERROR_MSG_ROUTER == <<"generic_error_message", "en">>
HelpText == <<"Available Kairo Cheat Commands">>
UnknownCommandText(command) == <<"Unknown command">> \o command
WelcomeText(lang) ==
    IF lang \in TemplateLanguages
    THEN <<"initial_welcome_message", lang>> ELSE <<"Hello!">>

CmdHelp == <<"/", "h", "e", "l", "p">>
CmdMorning == <<"/", "m", "o", "r", "n", "i", "n", "g">>
CmdEvening == <<"/", "e", "v", "e", "n", "i", "n", "g">>

\* The commands /list, /memory and /clear start with get_agent, which stores
\* the default record of a user it has never seen and lists the items of
\* status new or in_progress, newest first.
handle_cheat_command(user_id, command, args, table, st, t) ==
    LET items == [i \in 1..Cardinality({id \in DOMAIN table :
                                           /\ table[id].user_id = user_id
                                           /\ table[id].status \in {"new", "in_progress"}}) |->
                    LET ids == {id \in DOMAIN table :
                                   /\ table[id].user_id = user_id
                                   /\ table[id].status \in {"new", "in_progress"}}
                        before(id) == Cardinality({o \in ids :
                                         \/ table[o].created_at > table[id].created_at
                                         \/ /\ table[o].created_at = table[id].created_at
                                            /\ o < id})
                    IN  table[CHOOSE id \in ids : before(id) = i - 1]]
        seen == IF user_id \in DOMAIN st THEN st ELSE st @@ (user_id :> DEFAULT_PREFERENCES)
        lines == [i \in 1..Len(items) |-> "item"]
        message(content, table_after, st_after) ==
            [type |-> "message", content |-> content, trigger_type |-> "",
             table |-> table_after, st |-> st_after]
        system_event(trigger_type) ==
            [type |-> "system_event", content |-> <<>>, trigger_type |-> trigger_type,
             table |-> table, st |-> st]
    IN  CASE command = CmdHelp -> message(HelpText, table, st)
          [] command = <<"/", "l", "i", "s", "t">> ->
               LET status_filter == IF args # <<>> THEN Lower(args[1])
                                    ELSE <<"a", "c", "t", "i", "v", "e">>
                   wanted == CASE status_filter = <<"a", "l", "l">> -> {"new", "in_progress"}
                               [] status_filter = <<"a", "c", "t", "i", "v", "e">> ->
                                     {"new", "in_progress"}
                               [] status_filter = <<"n", "e", "w">> -> {"new"}
                               [] status_filter = <<"i", "n", "_", "p", "r", "o", "g", "r", "e", "s", "s">> ->
                                     {"in_progress"}
                               [] OTHER -> {}
                   filtered_items == SelectSeq(items, LAMBDA item : item.status \in wanted)
               IN  IF filtered_items = <<>>
                   THEN message(<<"No items found with status">> \o status_filter, table, seen)
                   ELSE message(<<"Items with status">> \o status_filter
                                   \o [i \in 1..Len(filtered_items) |-> filtered_items[i].type],
                                table, seen)
          [] command = <<"/", "m", "e", "m", "o", "r", "y">> ->
               message(<<"Agent Memory Summary", seen[user_id].status>> \o lines, table, seen)
          [] command = <<"/", "c", "l", "e", "a", "r">> ->
               message(<<"Marked">> \o lines \o <<"as 'deleted'.">>,
                       [id \in DOMAIN table |->
                          IF \E i \in 1..Len(items) : items[i].item_id = id
                          THEN [table[id] EXCEPT !.status = "deleted", !.updated_at = t]
                          ELSE table[id]],
                       seen)
          [] command = CmdMorning -> system_event("morning_muster")
          [] command = CmdEvening -> system_event("evening_reflection")
          [] OTHER -> message(UnknownCommandText(command), table, st)

PromptKeyRouter(user_status) ==
    IF user_status = "onboarding" THEN "kairo_onboarding_system_prompt"
    ELSE "kairo_agent_system_prompt"

VARIABLES
    bridge_type,    \* BRIDGE_TYPE of the process
    prompts,        \* keys present in config/prompts.yaml
    now,            \* UTC wall clock, minutes
    store,          \* _user_prefs_store: user id -> preference record
    messages,       \* table messages, in insertion order
    users_tasks,    \* table users_tasks: item id -> item
    outgoing,       \* outgoing_cli_messages / outgoing_whatsapp_messages
    next_uuid,      \* the next value uuid.uuid4() returns
    pushed,         \* messages the Twilio client accepted
    response,       \* the last response of GET /outgoing or POST /ack
    requests,       \* inbound POST /incoming requests, in arrival order
    events,         \* calls of handle_internal_system_event, in order
    llm_calls,      \* calls of client.chat.completions.create, in order
    llm_activity,   \* table llm_activity, in insertion order
    client_ok,      \* get_instructor_client() returns a client
    turns,          \* finished calls of handle_user_request, in order
    th              \* per thread: position and locals

vars == <<bridge_type, prompts, now, store, messages, users_tasks, outgoing,
          next_uuid, pushed, response, requests, events,
          llm_calls, llm_activity, client_ok, turns, th>>

Threads == {"loop", "ritual", "reminder"}

IdleThread ==
    [ pc |-> "idle", user_id |-> <<>>, message |-> <<>>, req |-> 0,
      out |-> <<>>, after |-> "idle", trigger |-> "", src |-> "",
      todo |-> {}, snap |-> <<>>, hm |-> <<>>, today |-> NoDate,
      now_utc |-> 0, items |-> <<>>, existing |-> <<>>,
      history |-> <<>>, transcript |-> <<>>, calls |-> <<>>, calls_made |-> <<>>,
      updates |-> <<>>, preferences |-> <<>> ]

UserLogEntry(user_id, text) ==
    [user_id |-> user_id, role |-> "user", message_type |-> "user_text", content |-> text]
AssistantLogEntry(user_id, text) ==
    [user_id |-> user_id, role |-> "assistant", message_type |-> "agent_text_response", content |-> text]

SetOutcome(r, o) == [requests EXCEPT ![r].outcome = o]
SetRouted(r, o, user_status) ==
    [requests EXCEPT ![r].outcome = o, ![r].status = user_status]

\* only a record without a status counts as a new user
IsNewUserWithoutStatus(user_status) == user_status = "None"

IsNewUser(user_status) == user_status = "new"

(***************************************************************************)
(* POST /incoming, then the background task up to the audit log entry.     *)
(***************************************************************************)
Incoming(raw, text, mid) ==
    /\ th["loop"].pc = "idle"
    /\ Len(requests) < MaxRequests
    /\ LET r == Len(requests) + 1
           rq == [user_id |-> raw, message |-> text, message_id |-> mid,
                  outcome |-> "accepted", status |-> ""]
           norm == normalize_user_id(raw)
       IN  IF raw = <<>>
           THEN /\ requests' = Append(requests, [rq EXCEPT !.outcome = "rejected"])
                /\ UNCHANGED <<messages, th>>
           ELSE IF ~PositionalsBind(BackgroundCallArgs(bridge_type), HandleIncomingMessageParams)
           THEN /\ requests' = Append(requests, [rq EXCEPT !.outcome = "TypeError"])
                /\ UNCHANGED <<messages, th>>
           ELSE IF norm = <<>>
           THEN /\ requests' = Append(requests, [rq EXCEPT !.outcome = "dropped"])
                /\ UNCHANGED <<messages, th>>
           ELSE /\ requests' = Append(requests, rq)
                /\ messages' = Append(messages, UserLogEntry(norm, text))
                /\ th' = [th EXCEPT !["loop"] =
                            [@ EXCEPT !.pc = "dispatch", !.user_id = norm,
                                      !.message = text, !.req = r]]
    /\ UNCHANGED <<bridge_type, prompts, now, store, users_tasks, outgoing,
                   next_uuid, pushed, response, events, llm_calls, llm_activity, client_ok, turns>>

(***************************************************************************)
(* handle_incoming_message: command detection.                             *)
(***************************************************************************)
Dispatch ==
    /\ th["loop"].pc = "dispatch"
    /\ LET me == th["loop"]
           stripped == Strip(me.message)
       IN  IF StartsWith(stripped, "/")
           THEN LET parts == Split(stripped)
                    command == Lower(parts[1])
                    args == Tail(parts)
                    cheat_result == handle_cheat_command(me.user_id, command, args,
                                                         users_tasks, store, now)
                IN  /\ store' = cheat_result.st
                    /\ users_tasks' = cheat_result.table
                    /\ IF cheat_result.type = "message"
                       THEN /\ th' = [th EXCEPT !["loop"] =
                                        [@ EXCEPT !.pc = "send_log", !.out = cheat_result.content,
                                                  !.after = "idle"]]
                            /\ requests' = SetOutcome(me.req, "command")
                            /\ UNCHANGED events
                       ELSE /\ th' = [th EXCEPT !["loop"] =
                                        [@ EXCEPT !.pc = "ise_get_agent",
                                                  !.trigger = cheat_result.trigger_type,
                                                  !.after = "idle"]]
                            /\ events' = Append(events,
                                   [user_id |-> me.user_id, trigger_type |-> cheat_result.trigger_type,
                                    source |-> "command", today |-> NoDate])
                            /\ requests' = SetOutcome(me.req, "system_event")
           ELSE /\ th' = [th EXCEPT !["loop"] = [@ EXCEPT !.pc = "get_agent"]]
                /\ UNCHANGED <<requests, events, store, users_tasks>>
    /\ UNCHANGED <<bridge_type, prompts, now, messages,
                   outgoing, next_uuid, pushed, response, llm_calls, llm_activity, client_ok, turns>>

(***************************************************************************)
(* user_manager.get_agent: the preference part, under _prefs_lock.         *)
(***************************************************************************)
GetAgent(t) ==
    /\ th[t].pc \in {"get_agent", "ise_get_agent"}
    /\ store' = WithUser(store, th[t].user_id)
    /\ th' = [th EXCEPT ![t] =
                [@ EXCEPT !.pc = IF th[t].pc = "get_agent" THEN "read_status" ELSE "ise_check"]]
    /\ UNCHANGED <<bridge_type, prompts, now, messages, users_tasks, outgoing,
                   next_uuid, pushed, response, requests,
                   events, llm_calls, llm_activity, client_ok, turns>>

(***************************************************************************)
(* handle_incoming_message after get_agent: the date is written into the   *)
(* preference dict get_agent returned, which is the stored dict itself.    *)
(***************************************************************************)
ReadStatus ==
    /\ th["loop"].pc = "read_status"
    /\ LET me == th["loop"]
           u == me.user_id
           user_prefs == store[u]
           user_status == user_prefs.status
       IN  /\ store' = [store EXCEPT ![u].current_utc_date = DateOf(now)]
           /\ IF IsNewUser(user_status)
              THEN /\ th' = [th EXCEPT !["loop"] =
                               [@ EXCEPT !.pc = "send_log",
                                         !.out = WelcomeText(user_prefs.language),
                                         !.after = "set_onboarding"]]
                   /\ requests' = SetRouted(me.req, "welcome", user_status)
              ELSE IF PromptKeyRouter(user_status) \notin prompts
              THEN /\ th' = [th EXCEPT !["loop"] =
                               [@ EXCEPT !.pc = "send_log", !.out = GENERIC_ERROR_MSG_ROUTER,
                                         !.after = "idle"]]
                   /\ requests' = SetRouted(me.req, "no_prompt", user_status)
              ELSE IF ~KeywordsBind(RouterCallKeywords, HandleUserRequestParams)
              THEN /\ th' = [th EXCEPT !["loop"] =
                               [@ EXCEPT !.pc = "send_log", !.out = GENERIC_ERROR_MSG_ROUTER,
                                         !.after = "idle"]]
                   /\ requests' = SetRouted(me.req, "agent_exception", user_status)
              ELSE /\ th' = [th EXCEPT !["loop"] = [@ EXCEPT !.pc = "agent_start"]]
                   /\ requests' = SetRouted(me.req, "agent", user_status)
    /\ UNCHANGED <<bridge_type, prompts, now, messages, users_tasks, outgoing,
                   next_uuid, pushed, response, events, llm_calls, llm_activity, client_ok, turns>>

\* no return after the welcome: the handler goes on to the prompt lookup
AfterWelcomeFallsThrough == "read_status"

\* the return that ends the handler once the welcome is out
AfterWelcome == "idle"

SetOnboarding ==
    /\ th["loop"].pc = "set_onboarding"
    /\ store' = update_user_preferences(store, th["loop"].user_id, [status |-> "onboarding"])
    /\ th' = [th EXCEPT !["loop"] = [@ EXCEPT !.pc = AfterWelcome]]
    /\ UNCHANGED <<bridge_type, prompts, now, messages, users_tasks, outgoing,
                   next_uuid, pushed, response, requests,
                   events, llm_calls, llm_activity, client_ok, turns>>

(***************************************************************************)
(* request_router.send_message: the audit record first, then the bridge.   *)
(***************************************************************************)
\* send_message without the record in the message log
SendLogWithoutRecord(t) ==
    /\ th[t].pc = "send_log"
    /\ th' = [th EXCEPT ![t] =
                [@ EXCEPT !.pc = IF th[t].user_id = <<>> \/ th[t].out = <<>>
                                 THEN th[t].after ELSE "send_bridge"]]
    /\ UNCHANGED <<bridge_type, prompts, now, store, messages, users_tasks, outgoing,
                   next_uuid, pushed, response, requests,
                   events, llm_calls, llm_activity, client_ok, turns>>

SendLog(t) ==
    /\ th[t].pc = "send_log"
    /\ IF th[t].user_id = <<>> \/ th[t].out = <<>>
       THEN /\ th' = [th EXCEPT ![t] = [@ EXCEPT !.pc = th[t].after]]
            /\ UNCHANGED messages
       ELSE /\ messages' = Append(messages, AssistantLogEntry(th[t].user_id, th[t].out))
            /\ th' = [th EXCEPT ![t] = [@ EXCEPT !.pc = "send_bridge"]]
    /\ UNCHANGED <<bridge_type, prompts, now, store, users_tasks, outgoing,
                   next_uuid, pushed, response, requests,
                   events, llm_calls, llm_activity, client_ok, turns>>

WhatsAppUserId(user_id) ==
    IF user_id # <<>> /\ \A i \in 1..Len(user_id) : user_id[i] \in Digits
    THEN user_id \o <<"@", "c", ".", "u", "s">> ELSE user_id

QueueEntry(bridge, user_id, message, id) ==
    [ user_id |-> IF bridge = "whatsapp" THEN WhatsAppUserId(user_id) ELSE user_id,
      message |-> message, message_id |-> id ]

SendBridge(t) ==
    /\ th[t].pc = "send_bridge"
    /\ th' = [th EXCEPT ![t] = [@ EXCEPT !.pc = th[t].after]]
    /\ IF bridge_type \in {"cli", "whatsapp"}
       THEN /\ outgoing' = Append(outgoing,
                   QueueEntry(bridge_type, th[t].user_id, th[t].out, next_uuid))
            /\ next_uuid' = next_uuid + 1
            /\ UNCHANGED pushed
       ELSE /\ \/ pushed' = Append(pushed, [user_id |-> th[t].user_id, message |-> th[t].out])
               \/ UNCHANGED pushed
            /\ UNCHANGED <<outgoing, next_uuid>>
    /\ UNCHANGED <<bridge_type, prompts, now, store, messages, users_tasks,
                   response, requests, events, llm_calls, llm_activity, client_ok, turns>>

(***************************************************************************)
(* GET /outgoing and POST /ack of the queue bridges.                       *)
(***************************************************************************)
NoResponse == [kind |-> "none", status |-> 0, messages |-> <<>>, message_id |-> 0, removed |-> FALSE]

\* a drain that empties the list it returns
QueueAfterDrainClearing(queue) == <<>>

\* GET /outgoing returns a copy and leaves the list as it is
QueueAfterDrain(queue) == queue

Drain ==
    /\ th["loop"].pc = "idle"
    /\ bridge_type \in {"cli", "whatsapp"}
    /\ response' = [NoResponse EXCEPT !.kind = "outgoing", !.status = 200, !.messages = outgoing]
    /\ outgoing' = QueueAfterDrain(outgoing)
    /\ UNCHANGED <<bridge_type, prompts, now, store, messages, users_tasks,
                   next_uuid, pushed, requests, events, llm_calls, llm_activity, client_ok, turns, th>>

NoDeliveryId == 0
UnknownDeliveryId == -1
AckIds == (1..(next_uuid - 1)) \cup {UnknownDeliveryId, NoDeliveryId}

\* an acknowledgement that pops the oldest entry whatever its id
KeptPopOldest(queue, message_id) == IF queue = <<>> THEN queue ELSE Tail(queue)

Kept(queue, message_id) == SelectSeq(queue, LAMBDA msg : msg.message_id # message_id)

\* a removed flag that reports whether anything was queued
AckRemovedIfQueued(queue, message_id) == Len(queue) # 0

AckRemoved(queue, message_id) == Len(queue) # Len(Kept(queue, message_id))

Acknowledge(message_id) ==
    /\ th["loop"].pc = "idle"
    /\ bridge_type \in {"cli", "whatsapp"}
    /\ IF message_id = NoDeliveryId
       THEN /\ response' = [NoResponse EXCEPT !.kind = "ack",
                                !.status = IF bridge_type = "cli" THEN 500 ELSE 400]
            /\ UNCHANGED outgoing
       ELSE /\ outgoing' = Kept(outgoing, message_id)
            /\ response' = [NoResponse EXCEPT !.kind = "ack", !.status = 200,
                                !.message_id = message_id,
                                !.removed = AckRemoved(outgoing, message_id)]
    /\ UNCHANGED <<bridge_type, prompts, now, store, messages, users_tasks,
                   next_uuid, pushed, requests, events, llm_calls, llm_activity, client_ok, turns, th>>

(***************************************************************************)
(* handle_internal_system_event after get_agent.  No message is sent on    *)
(* any path that does not enter handle_user_request.                       *)
(***************************************************************************)
\* the event handler without the comparison of the status with "active"
ISECheckAnyStatus(t) ==
    /\ th[t].pc = "ise_check"
    /\ LET u == th[t].user_id
       IN  /\ store' = [store EXCEPT ![u].current_utc_date = DateOf(now)]
           /\ IF "kairo_agent_system_prompt" \notin prompts
              THEN th' = [th EXCEPT ![t] = [@ EXCEPT !.pc = th[t].after]]
              ELSE IF ~KeywordsBind(RouterCallKeywords, HandleUserRequestParams)
              THEN th' = [th EXCEPT ![t] = [@ EXCEPT !.pc = th[t].after]]
              ELSE th' = [th EXCEPT ![t] = [@ EXCEPT !.pc = "agent_start"]]
    /\ UNCHANGED <<bridge_type, prompts, now, messages, users_tasks, outgoing,
                   next_uuid, pushed, response, requests,
                   events, llm_calls, llm_activity, client_ok, turns>>

ISECheck(t) ==
    /\ th[t].pc = "ise_check"
    /\ LET u == th[t].user_id
       IN  IF store[u].status # "active"
           THEN /\ th' = [th EXCEPT ![t] = [@ EXCEPT !.pc = th[t].after]]
                /\ UNCHANGED store
           ELSE /\ store' = [store EXCEPT ![u].current_utc_date = DateOf(now)]
                /\ IF "kairo_agent_system_prompt" \notin prompts
                   THEN th' = [th EXCEPT ![t] = [@ EXCEPT !.pc = th[t].after]]
                   ELSE IF ~KeywordsBind(RouterCallKeywords, HandleUserRequestParams)
                   THEN th' = [th EXCEPT ![t] = [@ EXCEPT !.pc = th[t].after]]
                   ELSE th' = [th EXCEPT ![t] = [@ EXCEPT !.pc = "agent_start"]]
    /\ UNCHANGED <<bridge_type, prompts, now, messages, users_tasks, outgoing,
                   next_uuid, pushed, response, requests,
                   events, llm_calls, llm_activity, client_ok, turns>>

(***************************************************************************)
(* scheduler_service._check_and_trigger_routines                           *)
(***************************************************************************)
RitualDays(prefs) ==
    IF prefs.ritual_days # NoRitualDays THEN prefs.ritual_days ELSE prefs.work_days

Truthy(v) == v # <<>> /\ v # "None" /\ v # ""

\* a morning check that ignores the date of the last trigger
MorningDueAnyDate(prefs, hm, today) ==
    /\ prefs.morning_muster_time # <<>>
    /\ hm = prefs.morning_muster_time

MorningDue(prefs, hm, today) ==
    /\ prefs.morning_muster_time # <<>>
    /\ hm = prefs.morning_muster_time
    /\ prefs.last_morning_trigger_date # today

\* an evening check that is skipped when the morning check fires (elif)
EveningDueUnlessMorning(prefs, hm, today) ==
    /\ prefs.evening_reflection_time # <<>>
    /\ hm = prefs.evening_reflection_time
    /\ prefs.last_evening_trigger_date # today
    /\ ~MorningDue(prefs, hm, today)

EveningDue(prefs, hm, today) ==
    /\ prefs.evening_reflection_time # <<>>
    /\ hm = prefs.evening_reflection_time
    /\ prefs.last_evening_trigger_date # today

TriggerEvent(user_id, trigger_type, today) ==
    [user_id |-> user_id, trigger_type |-> trigger_type, source |-> "scheduler", today |-> today]

\* now_utc keeps the minute in which the scan starts; the job itself reads
\* the clock once per user, in RitualUser
RitualScanStart ==
    /\ th["ritual"].pc = "idle"
    /\ th' = [th EXCEPT !["ritual"] =
                [@ EXCEPT !.pc = "r_user", !.snap = store, !.todo = DOMAIN store,
                          !.now_utc = now]]
    /\ UNCHANGED <<bridge_type, prompts, now, store, messages, users_tasks,
                   outgoing, next_uuid, pushed, response,
                   requests, events, llm_calls, llm_activity, client_ok, turns>>

RitualScanEnd ==
    /\ th["ritual"].pc = "r_user"
    /\ th["ritual"].todo = {}
    /\ th' = [th EXCEPT !["ritual"] = IdleThread]
    /\ UNCHANGED <<bridge_type, prompts, now, store, messages, users_tasks,
                   outgoing, next_uuid, pushed, response,
                   requests, events, llm_calls, llm_activity, client_ok, turns>>

RitualUser(u) ==
    /\ th["ritual"].pc = "r_user"
    /\ u \in th["ritual"].todo
    /\ LET me == th["ritual"]
           prefs == me.snap[u]
           rest == me.todo \ {u}
           skip == [me EXCEPT !.todo = rest, !.user_id = <<>>, !.hm = <<>>, !.today = NoDate]
       IN  IF prefs.status # "active" \/ prefs.timezone = "None"
           THEN th' = [th EXCEPT !["ritual"] = skip] /\ UNCHANGED events
           ELSE IF prefs.timezone \notin KnownTimezones
           THEN th' = [th EXCEPT !["ritual"] = skip] /\ UNCHANGED events
           ELSE LET now_local == LocalMinutes(prefs.timezone, now)
                    hm == HourMinuteOf(now_local)
                    today == DateOf(now_local)
                    at == [skip EXCEPT !.user_id = u, !.hm = hm, !.today = today]
                IN  IF WeekdayOf(today) \notin RitualDays(prefs)
                    THEN th' = [th EXCEPT !["ritual"] = at] /\ UNCHANGED events
                    ELSE IF MorningDue(prefs, hm, today)
                    THEN /\ events' = Append(events, TriggerEvent(u, "morning_muster", today))
                         /\ th' = [th EXCEPT !["ritual"] =
                                     [at EXCEPT !.pc = "ise_get_agent", !.trigger = "morning_muster",
                                                !.after = "r_morning_update"]]
                    ELSE IF EveningDue(prefs, hm, today)
                    THEN /\ events' = Append(events, TriggerEvent(u, "evening_reflection", today))
                         /\ th' = [th EXCEPT !["ritual"] =
                                     [at EXCEPT !.pc = "ise_get_agent", !.trigger = "evening_reflection",
                                                !.after = "r_evening_update"]]
                    ELSE th' = [th EXCEPT !["ritual"] = at] /\ UNCHANGED events
    /\ UNCHANGED <<bridge_type, prompts, now, store, messages, users_tasks,
                   outgoing, next_uuid, pushed, response,
                   requests, llm_calls, llm_activity, client_ok, turns>>

RitualMorningUpdate ==
    /\ th["ritual"].pc = "r_morning_update"
    /\ LET me == th["ritual"]
           prefs == me.snap[me.user_id]
       IN  /\ store' = update_user_preferences(store, me.user_id,
                            [last_morning_trigger_date |-> me.today])
           /\ IF EveningDue(prefs, me.hm, me.today)
              THEN /\ events' = Append(events, TriggerEvent(me.user_id, "evening_reflection", me.today))
                   /\ th' = [th EXCEPT !["ritual"] =
                               [@ EXCEPT !.pc = "ise_get_agent", !.trigger = "evening_reflection",
                                         !.after = "r_evening_update"]]
              ELSE /\ th' = [th EXCEPT !["ritual"] = [@ EXCEPT !.pc = "r_user"]]
                   /\ UNCHANGED events
    /\ UNCHANGED <<bridge_type, prompts, now, messages, users_tasks, outgoing,
                   next_uuid, pushed, response, requests, llm_calls, llm_activity, client_ok, turns>>

RitualEveningUpdate ==
    /\ th["ritual"].pc = "r_evening_update"
    /\ store' = update_user_preferences(store, th["ritual"].user_id,
                     [last_evening_trigger_date |-> th["ritual"].today])
    /\ th' = [th EXCEPT !["ritual"] = [@ EXCEPT !.pc = "r_user"]]
    /\ UNCHANGED <<bridge_type, prompts, now, messages, users_tasks, outgoing,
                   next_uuid, pushed, response, requests,
                   events, llm_calls, llm_activity, client_ok, turns>>

(***************************************************************************)
(* activity_db and task_manager                                            *)
(***************************************************************************)
ItemsOf(table, user_id, status_filter) ==
    {id \in DOMAIN table : table[id].user_id = user_id /\ table[id].status \in status_filter}

RECURSIVE OrderByCreatedAtDesc(_, _)
OrderByCreatedAtDesc(table, ids) ==
    IF ids = {} THEN <<>>
    ELSE LET first == CHOOSE id \in ids :
                         \A other \in ids : table[other].created_at <= table[id].created_at
         IN  <<table[first]>> \o OrderByCreatedAtDesc(table, ids \ {first})

list_items_for_user(table, user_id, status_filter) ==
    OrderByCreatedAtDesc(table, ItemsOf(table, user_id, status_filter))

add_or_update_item(table, item_data) ==
    IF item_data.item_id \in DOMAIN table
    THEN [table EXCEPT ![item_data.item_id] = Merge(@, item_data)]
    ELSE table @@ (item_data.item_id :> item_data)

(***************************************************************************)
(* notification_service.check_and_send_reminders                           *)
(***************************************************************************)
NotificationLanguages == {"en", "he"}
ReminderText(lang, description) ==
    IF lang \in NotificationLanguages
    THEN <<"reminder_alert", lang>> \o description ELSE description

Parses(remind_at) == remind_at[1] \in {"utc", "naive"}
Aware(remind_at) == remind_at[1] = "utc"
LookaheadMinutes == 1

ReminderScanStart ==
    /\ th["reminder"].pc = "idle"
    /\ th' = [th EXCEPT !["reminder"] =
                [@ EXCEPT !.pc = "rem_user", !.snap = store, !.todo = DOMAIN store,
                          !.now_utc = now]]
    /\ UNCHANGED <<bridge_type, prompts, now, store, messages, users_tasks,
                   outgoing, next_uuid, pushed, response,
                   requests, events, llm_calls, llm_activity, client_ok, turns>>

ReminderScanEnd ==
    /\ th["reminder"].pc = "rem_user"
    /\ th["reminder"].todo = {}
    /\ th' = [th EXCEPT !["reminder"] = IdleThread]
    /\ UNCHANGED <<bridge_type, prompts, now, store, messages, users_tasks,
                   outgoing, next_uuid, pushed, response,
                   requests, events, llm_calls, llm_activity, client_ok, turns>>

ReminderUser(u) ==
    /\ th["reminder"].pc = "rem_user"
    /\ u \in th["reminder"].todo
    /\ LET me == th["reminder"]
           rest == me.todo \ {u}
       IN  IF me.snap[u].status # "active"
           THEN th' = [th EXCEPT !["reminder"] = [me EXCEPT !.todo = rest]]
           ELSE th' = [th EXCEPT !["reminder"] =
                         [me EXCEPT !.todo = rest, !.user_id = u, !.pc = "rem_item",
                                    !.items = list_items_for_user(users_tasks, u, {"new"})]]
    /\ UNCHANGED <<bridge_type, prompts, now, store, messages, users_tasks,
                   outgoing, next_uuid, pushed, response,
                   requests, events, llm_calls, llm_activity, client_ok, turns>>

\* the except clause around the loop over the users: the scan is over
ReminderUserFailedEndsScan(me) == [me EXCEPT !.pc = "rem_user", !.items = <<>>, !.todo = {}]

\* the except clause inside the loop over the users: the scan goes on with
\* the next user
ReminderUserFailed(me) == [me EXCEPT !.pc = "rem_user", !.items = <<>>]

ReminderItem ==
    /\ th["reminder"].pc = "rem_item"
    /\ LET me == th["reminder"]
           abort == ReminderUserFailed(me)
       IN  IF me.items = <<>>
           THEN th' = [th EXCEPT !["reminder"] = [me EXCEPT !.pc = "rem_user"]]
           ELSE LET item == Head(me.items)
                    next == [me EXCEPT !.items = Tail(me.items)]
                IN  IF item.type # "reminder" \/ item.remind_at = <<>>
                    THEN th' = [th EXCEPT !["reminder"] = next]
                    ELSE IF ~Parses(item.remind_at) \/ ~Aware(item.remind_at)
                    THEN th' = [th EXCEPT !["reminder"] = abort]
                    ELSE IF item.remind_at[2] <= me.now_utc + LookaheadMinutes
                    THEN th' = [th EXCEPT !["reminder"] =
                                  [me EXCEPT !.pc = "send_log", !.after = "rem_update_read",
                                             !.out = ReminderText(me.snap[me.user_id].language,
                                                                  item.description)]]
                    ELSE th' = [th EXCEPT !["reminder"] = next]
    /\ UNCHANGED <<bridge_type, prompts, now, store, messages, users_tasks,
                   outgoing, next_uuid, pushed, response,
                   requests, events, llm_calls, llm_activity, client_ok, turns>>

ReminderUpdateRead ==
    /\ th["reminder"].pc = "rem_update_read"
    /\ LET me == th["reminder"]
           item_id == Head(me.items).item_id
       IN  IF item_id \notin DOMAIN users_tasks \/ users_tasks[item_id].user_id # me.user_id
           THEN th' = [th EXCEPT !["reminder"] =
                         [me EXCEPT !.pc = "rem_item", !.items = Tail(me.items)]]
           ELSE th' = [th EXCEPT !["reminder"] =
                         [me EXCEPT !.pc = "rem_update_write", !.existing = users_tasks[item_id]]]
    /\ UNCHANGED <<bridge_type, prompts, now, store, messages, users_tasks,
                   outgoing, next_uuid, pushed, response,
                   requests, events, llm_calls, llm_activity, client_ok, turns>>

ReminderUpdateWrite ==
    /\ th["reminder"].pc = "rem_update_write"
    /\ LET me == th["reminder"]
           final_payload == Merge(Merge(me.existing, [status |-> "completed"]),
                                  [updated_at |-> now])
       IN  /\ users_tasks' = add_or_update_item(users_tasks, final_payload)
           /\ th' = [th EXCEPT !["reminder"] =
                       [me EXCEPT !.pc = "rem_item", !.items = Tail(me.items),
                                  !.existing = <<>>]]
    /\ UNCHANGED <<bridge_type, prompts, now, store, messages, outgoing,
                   next_uuid, pushed, response, requests,
                   events, llm_calls, llm_activity, client_ok, turns>>

Tick ==
    /\ \E t \in TimePoints : t > now /\ now' = t
    /\ UNCHANGED <<bridge_type, prompts, store, messages, users_tasks, outgoing,
                   next_uuid, pushed, response, requests,
                   events, llm_calls, llm_activity, client_ok, turns, th>>

(***************************************************************************)
(* agents/tool_definitions.py and services/task_manager.py                 *)
(***************************************************************************)
AVAILABLE_TOOLS == {"create_task", "create_reminder", "update_item",
                    "update_user_preferences", "finalize_onboarding"}

RequiredParams(tool_name) ==
    CASE tool_name = "create_task" -> {"description"}
      [] tool_name = "create_reminder" -> {"description", "remind_at"}
      [] tool_name = "update_item" -> {"item_id", "updates"}
      [] OTHER -> {}

DeclaredParams(tool_name) ==
    CASE tool_name = "create_task" -> {"description"}
      [] tool_name = "create_reminder" -> {"description", "remind_at"}
      [] tool_name = "update_item" -> {"item_id", "updates"}
      [] tool_name = "update_user_preferences" -> {"name", "timezone", "language", "work_days"}
      [] OTHER -> {}

\* param_model.model_validate_json(arguments)
ValidArguments(tool_name, arguments) ==
    arguments.json /\ RequiredParams(tool_name) \subseteq DOMAIN arguments.obj

\* the validated model: undeclared keys of the JSON object are dropped
model_dump(tool_name, arguments) ==
    [k \in DOMAIN arguments.obj \cap DeclaredParams(tool_name) |-> arguments.obj[k]]

ItemColumns == {"item_id", "user_id", "type", "status", "description",
                "due_date", "remind_at", "created_at", "updated_at"}
ItemStatuses == {"new", "in_progress", "completed", "deleted"}
ItemTypes == {"task", "reminder"}

\* the INSERT ... ON CONFLICT statement succeeds
RowAccepted(item_data) ==
    /\ DOMAIN item_data \subseteq ItemColumns
    /\ item_data.status \in ItemStatuses
    /\ item_data.type \in ItemTypes

ToolResult(success, item_id, error) ==
    [kind |-> "result", success |-> success, item_id |-> item_id, error |-> error]
ErrorPayload(error) ==
    [kind |-> "error", success |-> FALSE, item_id |-> 0, error |-> error]
NoResult == [kind |-> "none", success |-> FALSE, item_id |-> 0, error |-> ""]

NewItem(item_id, user_id, item_type, item_params, t) ==
    Merge([ item_id |-> item_id, user_id |-> user_id, type |-> item_type,
            status |-> "new", description |-> <<"No description provided">>,
            remind_at |-> <<>>, created_at |-> t, updated_at |-> t ],
          item_params)

\* Each tool: the result it returns and the state it leaves.
create_tool(user_id, item_type, params, table, st, uuid, t) ==
    LET item == NewItem(uuid, user_id, item_type, params, t)
    IN  IF RowAccepted(item)
        THEN [result |-> ToolResult(TRUE, uuid, ""),
              table |-> add_or_update_item(table, item), st |-> st, uuid |-> uuid + 1]
        ELSE [result |-> ToolResult(FALSE, 0, "Failed to create item."),
              table |-> table, st |-> st, uuid |-> uuid + 1]

\* update_item without the comparison of the item's user with the caller
update_item_tool_any_owner(user_id, params, table, st, uuid, t) ==
    LET failed == [result |-> ToolResult(FALSE, 0, "Failed to update item."),
                   table |-> table, st |-> st, uuid |-> uuid]
    IN  IF params.item_id \notin DOMAIN table THEN failed
        ELSE LET final_payload ==
                     Merge(Merge(table[params.item_id], params.updates), [updated_at |-> t])
             IN  IF RowAccepted(final_payload)
                 THEN [result |-> ToolResult(TRUE, params.item_id, ""),
                       table |-> add_or_update_item(table, final_payload),
                       st |-> st, uuid |-> uuid]
                 ELSE failed

update_item_tool(user_id, params, table, st, uuid, t) ==
    LET failed == [result |-> ToolResult(FALSE, 0, "Failed to update item."),
                   table |-> table, st |-> st, uuid |-> uuid]
    IN  IF params.item_id \notin DOMAIN table THEN failed
        ELSE IF table[params.item_id].user_id # user_id THEN failed
        ELSE LET final_payload ==
                     Merge(Merge(table[params.item_id], params.updates), [updated_at |-> t])
             IN  IF RowAccepted(final_payload)
                 THEN [result |-> ToolResult(TRUE, params.item_id, ""),
                       table |-> add_or_update_item(table, final_payload),
                       st |-> st, uuid |-> uuid]
                 ELSE failed

update_user_preferences_tool(user_id, params, table, st, uuid) ==
    IF DOMAIN params = {}
    THEN [result |-> ToolResult(FALSE, 0, "No preferences were provided to update."),
          table |-> table, st |-> st, uuid |-> uuid]
    ELSE [result |-> ToolResult(TRUE, 0, ""), table |-> table,
          st |-> update_user_preferences(st, user_id, params), uuid |-> uuid]

finalize_onboarding(user_id, table, st, uuid) ==
    [result |-> ToolResult(TRUE, 0, ""), table |-> table,
     st |-> update_user_preferences(st, user_id, [status |-> "active"]), uuid |-> uuid]

tool_function(tool_name, user_id, params, table, st, uuid, t) ==
    CASE tool_name = "create_task" -> create_tool(user_id, "task", params, table, st, uuid, t)
      [] tool_name = "create_reminder" -> create_tool(user_id, "reminder", params, table, st, uuid, t)
      [] tool_name = "update_item" -> update_item_tool(user_id, params, table, st, uuid, t)
      [] tool_name = "update_user_preferences" ->
             update_user_preferences_tool(user_id, params, table, st, uuid)
      [] tool_name = "finalize_onboarding" -> finalize_onboarding(user_id, table, st, uuid)

(***************************************************************************)
(* agents/kairo_agent.py: handle_user_request                              *)
(***************************************************************************)
GENERIC_ERROR_MSG == <<"generic_error_message", "en">>

PromptKeyAgent(user_status) ==
    IF user_status \in {"new", "pending_onboarding", "onboarding"}
    THEN "kairo_onboarding_system_prompt" ELSE "kairo_agent_system_prompt"

\* one try around the whole tool loop: a validation error ends the turn
TryBlockOfWithoutToolTry(site) ==
    CASE site \in {"validate", "execute", "first_call", "second_call"} -> "turn"
      [] OTHER -> "none"

\* the second model call made after the try block has ended
TryBlockOfFirstCallOnly(site) ==
    CASE site \in {"validate", "execute"} -> "tool"
      [] site = "first_call" -> "turn"
      [] OTHER -> "none"

\* the model calls made outside every try block
TryBlockOfToolsOnly(site) ==
    CASE site \in {"validate", "execute"} -> "tool"
      [] OTHER -> "none"

\* The try block that encloses a call site: "tool" is the try of one tool
\* invocation, "turn" the try around the model calls, "none" no try at all.
TryBlockOf(site) ==
    CASE site \in {"validate", "execute"} -> "tool"
      [] site \in {"first_call", "second_call"} -> "turn"
      [] OTHER -> "none"

Entry(role, name, tool_call_id, content, result, tool_calls) ==
    [role |-> role, name |-> name, tool_call_id |-> tool_call_id,
     content |-> content, result |-> result, tool_calls |-> tool_calls]

RECURSIVE LastN(_, _)
LastN(s, n) == IF Len(s) <= n THEN s ELSE LastN(Tail(s), n)

HistoryLimit == 10

list_messages_for_user(log, user_id, limit) ==
    LET mine == SelectSeq(log, LAMBDA m : m.user_id = user_id)
        recent == LastN(mine, limit)
    IN  [i \in 1..Len(recent) |->
            Entry(recent[i].role, "", "", recent[i].content, NoResult, <<>>)]

Finish(t, outcome, reply) ==
    /\ turns' = Append(turns, [user_id |-> th[t].user_id, message |-> th[t].message,
                               outcome |-> outcome, reply |-> reply,
                               tool_calls |-> th[t].calls_made])
    /\ th' = [th EXCEPT ![t] = IdleThread]

\* An exception raised at a call site of handle_user_request.
Raise(t, site, error) ==
    CASE TryBlockOf(site) = "tool" ->
             /\ th' = [th EXCEPT ![t] =
                         [@ EXCEPT !.calls = Tail(@),
                                   !.transcript = Append(@,
                                       Entry("tool", Head(th[t].calls).name, Head(th[t].calls).id,
                                             <<>>, ErrorPayload(error), <<>>))]]
             /\ UNCHANGED turns
      [] TryBlockOf(site) = "turn" -> Finish(t, "returned", GENERIC_ERROR_MSG)
      [] OTHER -> Finish(t, "raised", <<error>>)

\* A caller invokes handle_user_request(user_id, message, get_agent(user_id)).
CallHandleUserRequest(user_id, message) ==
    /\ th["loop"].pc = "idle"
    /\ Len(turns) < MaxTurns
    /\ store' = WithUser(store, user_id)
    /\ th' = [th EXCEPT !["loop"] =
                [@ EXCEPT !.pc = "agent_start", !.user_id = user_id, !.message = message,
                          !.items = list_items_for_user(users_tasks, user_id, {"new", "in_progress"}),
                          !.history = list_messages_for_user(messages, user_id, HistoryLimit)]]
    /\ UNCHANGED <<bridge_type, prompts, now, messages, users_tasks, outgoing,
                   next_uuid, pushed, response, requests, events, llm_calls,
                   llm_activity, client_ok, turns>>

\* handle_incoming_message from its first line to its call of
\* handle_user_request, the call made with the parameters the function
\* declares: the inbound text is logged, then get_agent reads the bundle.
InboundTurn(user_id, message) ==
    /\ th["loop"].pc = "idle"
    /\ Len(turns) < MaxTurns
    /\ messages' = Append(messages, UserLogEntry(user_id, message))
    /\ store' = WithUser(store, user_id)
    /\ th' = [th EXCEPT !["loop"] =
                [@ EXCEPT !.pc = "agent_start", !.user_id = user_id, !.message = message,
                          !.src = "inbound",
                          !.items = list_items_for_user(users_tasks, user_id, {"new", "in_progress"}),
                          !.history = list_messages_for_user(messages', user_id, HistoryLimit)]]
    /\ UNCHANGED <<bridge_type, prompts, now, users_tasks, outgoing,
                   next_uuid, pushed, response, requests, events, llm_calls,
                   llm_activity, client_ok, turns>>

AgentStart(t) ==
    /\ th[t].pc = "agent_start"
    /\ LET me == th[t]
           user_status == store[me.user_id].status
           system_prompt_key == PromptKeyAgent(user_status)
           messages_for_api ==
               <<Entry("system", system_prompt_key, "", <<>>, NoResult, <<>>)>>
               \o me.history
               \o (IF me.message # <<>>
                   THEN <<Entry("user", "", "", me.message, NoResult, <<>>)>> ELSE <<>>)
       IN  IF ~client_ok \/ system_prompt_key \notin prompts
           THEN /\ Finish(t, "returned", GENERIC_ERROR_MSG)
                /\ UNCHANGED llm_calls
           ELSE /\ llm_calls' = Append(llm_calls,
                       [turn |-> Len(turns) + 1, user_id |-> me.user_id,
                        prompt |-> system_prompt_key, tools |-> TRUE,
                        messages |-> messages_for_api])
                /\ th' = [th EXCEPT ![t] =
                            [@ EXCEPT !.pc = "first_call", !.transcript = messages_for_api]]
                /\ UNCHANGED turns
    /\ UNCHANGED <<bridge_type, prompts, now, store, messages, users_tasks,
                   outgoing, next_uuid, pushed, response, requests, events,
                   llm_activity, client_ok>>

FirstModelFails(t) ==
    /\ th[t].pc = "first_call"
    /\ Raise(t, "first_call", "APIError")
    /\ UNCHANGED <<bridge_type, prompts, now, store, messages, users_tasks,
                   outgoing, next_uuid, pushed, response, requests, events,
                   llm_calls, llm_activity, client_ok>>

RawResponseLogEntry(user_id, content) ==
    [user_id |-> user_id, role |-> "assistant", message_type |-> "agent_raw_response",
     content |-> content]

\* a model answer whose tool_calls attribute is set, be it to an empty list
HasToolCallsAttribute(tool_calls) == TRUE

\* `if message_from_llm.tool_calls:`
HasToolCalls(tool_calls) == tool_calls # <<>>

FirstModelReturns(t, content, tool_calls) ==
    /\ th[t].pc = "first_call"
    /\ messages' = Append(messages, RawResponseLogEntry(th[t].user_id, content))
    /\ IF HasToolCalls(tool_calls)
       THEN /\ th' = [th EXCEPT ![t] =
                        [@ EXCEPT !.pc = "tools", !.calls = tool_calls,
                                  !.calls_made = tool_calls,
                                  !.transcript = Append(@,
                                      Entry("assistant", "", "", content, NoResult, tool_calls))]]
            /\ UNCHANGED turns
       ELSE Finish(t, "returned", content)
    /\ UNCHANGED <<bridge_type, prompts, now, store, users_tasks, outgoing,
                   next_uuid, pushed, response, requests, events, llm_calls,
                   llm_activity, client_ok>>

\* an unknown tool name ending the loop over the invocations
AfterUnknownToolBreak(calls) == <<>>

\* continue: the loop goes on with the invocations after the unknown one
AfterUnknownTool(calls) == Tail(calls)

ExecTool(t) ==
    /\ th[t].pc = "tools"
    /\ th[t].calls # <<>>
    /\ LET me == th[t]
           tool_call == Head(me.calls)
           tool_name == tool_call.name
       IN  IF tool_name \notin AVAILABLE_TOOLS
           THEN /\ th' = [th EXCEPT ![t] = [@ EXCEPT !.calls = AfterUnknownTool(@)]]
                /\ UNCHANGED <<store, users_tasks, next_uuid, llm_activity, turns>>
           ELSE IF ~ValidArguments(tool_name, tool_call.arguments)
           THEN /\ Raise(t, "validate", "ValidationError")
                /\ UNCHANGED <<store, users_tasks, next_uuid, llm_activity>>
           ELSE LET tool_args == model_dump(tool_name, tool_call.arguments)
                    done == tool_function(tool_name, me.user_id, tool_args,
                                          users_tasks, store, next_uuid, now)
                IN  /\ users_tasks' = done.table
                    /\ store' = done.st
                    /\ next_uuid' = done.uuid
                    /\ llm_activity' = Append(llm_activity,
                           [turn |-> Len(turns) + 1, user_id |-> me.user_id,
                            tool_name |-> tool_name, tool_call_id |-> tool_call.id,
                            tool_args |-> tool_args, tool_result |-> done.result])
                    /\ th' = [th EXCEPT ![t] =
                                [@ EXCEPT !.calls = Tail(@),
                                          !.transcript = Append(@,
                                              Entry("tool", tool_name, tool_call.id, <<>>,
                                                    done.result, <<>>))]]
                    /\ UNCHANGED turns
    /\ UNCHANGED <<bridge_type, prompts, now, messages, outgoing, pushed,
                   response, requests, events, llm_calls, client_ok>>

SecondModelCall(t, fails, content) ==
    /\ th[t].pc = "tools"
    /\ th[t].calls = <<>>
    /\ llm_calls' = Append(llm_calls,
           [turn |-> Len(turns) + 1, user_id |-> th[t].user_id, prompt |-> "",
            tools |-> FALSE, messages |-> th[t].transcript])
    /\ IF fails THEN Raise(t, "second_call", "APIError")
       ELSE Finish(t, "returned", content)
    /\ UNCHANGED <<bridge_type, prompts, now, store, messages, users_tasks,
                   outgoing, next_uuid, pushed, response, requests, events,
                   llm_activity, client_ok>>

(***************************************************************************)
(* What the model may answer.                                              *)
(***************************************************************************)
Json(obj) == [json |-> TRUE, obj |-> obj]
NotJson == [json |-> FALSE, obj |-> <<>>]

ToolInvocations ==
    { [name |-> "create_task", arguments |-> Json([description |-> <<"buy milk">>])],
      [name |-> "create_task", arguments |-> Json(<<>>)],
      [name |-> "update_item",
       arguments |-> Json([item_id |-> 101, updates |-> [status |-> "completed"]])],
      [name |-> "update_user_preferences", arguments |-> Json([timezone |-> "UTC"])],
      [name |-> "update_user_preferences", arguments |-> Json([status |-> "new"])],
      [name |-> "finalize_onboarding", arguments |-> NotJson],
      [name |-> "finalize_onboarding", arguments |-> Json(<<>>)],
      [name |-> "delete_everything", arguments |-> Json(<<>>)] }

WithIds(invocations) ==
    [i \in 1..Len(invocations) |->
        [id |-> i, name |-> invocations[i].name, arguments |-> invocations[i].arguments]]

RECURSIVE SeqsUpTo(_, _)
SeqsUpTo(S, n) ==
    IF n = 0 THEN {<<>>}
    ELSE LET shorter == SeqsUpTo(S, n - 1)
         IN  shorter \cup {Append(q, x) : q \in {p \in shorter : Len(p) = n - 1}, x \in S}

ToolCallLists == {WithIds(q) : q \in SeqsUpTo(ToolInvocations, MaxToolCalls)}
ModelContents == {<<>>, <<"Done.">>}
AgentMessages == {<<"h", "i">>, <<>>}

(***************************************************************************)
(* The state at start-up: preferences loaded from the users file, items    *)
(* from the database file.                                                 *)
(***************************************************************************)
ActivePrefs(tz) ==
    [DEFAULT_PREFERENCES EXCEPT !.status = "active", !.timezone = tz,
                                !.morning_muster_time =
                                    IF tz = "UTC" THEN <<23, 0>> ELSE <<8, 0>>]

StoredPrefs == { DEFAULT_PREFERENCES,
                 [DEFAULT_PREFERENCES EXCEPT !.status = "onboarding"],
                 ActivePrefs("UTC"),
                 ActivePrefs("Asia/Tokyo") }

UsersFiles ==
    { <<>> } \cup
    { (U1 :> p) : p \in StoredPrefs } \cup
    { (U1 :> p) @@ (U2 :> ActivePrefs("UTC")) : p \in StoredPrefs }

Reminder(id, user_id, remind_at, created_at) ==
    [ item_id |-> id, user_id |-> user_id, type |-> "reminder", status |-> "new",
      description |-> <<"reminder", id>>, remind_at |-> remind_at,
      created_at |-> created_at, updated_at |-> created_at ]

I1 == 101
I2 == 102
I3 == 103

DatabaseFiles ==
    { <<>>,
      (I1 :> Reminder(I1, U1, <<"utc", 1380>>, 10)),
      (I1 :> Reminder(I1, U1, <<"utc", 1380>>, 10))
         @@ (I2 :> Reminder(I2, U1, <<"bad">>, 20)),
      (I1 :> Reminder(I1, U1, <<"utc", 1380>>, 10))
         @@ (I3 :> Reminder(I3, U2, <<"utc", 2820>>, 30)) }

PromptFiles == { {"kairo_onboarding_system_prompt", "kairo_agent_system_prompt"}, {} }

BridgeTypes == {"cli", "whatsapp", "twilio"}

BaseInit ==
    /\ now = 1379
    /\ messages = <<>>
    /\ llm_activity = <<>>
    /\ outgoing = <<>>
    /\ next_uuid = 1
    /\ pushed = <<>>
    /\ response = NoResponse
    /\ requests = <<>>
    /\ events = <<>>
    /\ llm_calls = <<>>
    /\ turns = <<>>
    /\ th = [t \in Threads |-> IdleThread]

Init ==
    /\ BaseInit
    /\ bridge_type \in BridgeTypes
    /\ prompts \in PromptFiles
    /\ client_ok \in BOOLEAN
    /\ store \in UsersFiles
    /\ users_tasks \in DatabaseFiles

(***************************************************************************)
(* The steps of each thread.                                               *)
(***************************************************************************)
RouterSteps ==
    \/ Dispatch
    \/ GetAgent("loop")
    \/ ReadStatus
    \/ SetOnboarding
    \/ SendLog("loop")
    \/ SendBridge("loop")
    \/ ISECheck("loop")

PollSteps ==
    \/ Drain
    \/ \E id \in AckIds : Acknowledge(id)

RitualSteps ==
    \/ RitualScanStart
    \/ \E u \in DOMAIN store : RitualUser(u)
    \/ GetAgent("ritual")
    \/ ISECheck("ritual")
    \/ RitualMorningUpdate
    \/ RitualEveningUpdate
    \/ RitualScanEnd

ReminderSteps ==
    \/ ReminderScanStart
    \/ \E u \in DOMAIN store : ReminderUser(u)
    \/ ReminderItem
    \/ SendLog("reminder")
    \/ SendBridge("reminder")
    \/ ReminderUpdateRead
    \/ ReminderUpdateWrite
    \/ ReminderScanEnd

AgentSteps ==
    \/ AgentStart("loop")
    \/ FirstModelFails("loop")
    \/ \E content \in ModelContents, tool_calls \in ToolCallLists :
           FirstModelReturns("loop", content, tool_calls)
    \/ ExecTool("loop")
    \/ \E fails \in BOOLEAN, content \in ModelContents :
           SecondModelCall("loop", fails, content)

(***************************************************************************)
(* The whole process.                                                      *)
(***************************************************************************)
Next ==
    \/ \E raw \in RawUserIds, text \in Texts, mid \in MessageIds : Incoming(raw, text, mid)
    \/ RouterSteps
    \/ PollSteps
    \/ RitualSteps
    \/ ReminderSteps
    \/ Tick

Spec == Init /\ [][Next]_vars

(***************************************************************************)
(* The event loop alone: inbound messages and the polling client, the      *)
(* scheduler jobs taking no step.                                          *)
(***************************************************************************)
RouterUsersFiles == {f \in UsersFiles : U2 \notin DOMAIN f}

InitRouter ==
    /\ BaseInit
    /\ bridge_type \in BridgeTypes
    /\ prompts \in PromptFiles
    /\ client_ok = TRUE
    /\ store \in RouterUsersFiles
    /\ users_tasks = <<>>

NextRouter ==
    \/ \E raw \in RawUserIds, text \in Texts, mid \in MessageIds : Incoming(raw, text, mid)
    \/ RouterSteps
    \/ PollSteps

SpecRouter == InitRouter /\ [][NextRouter]_vars

(***************************************************************************)
(* handle_user_request called with the arguments it declares.              *)
(***************************************************************************)
AgentUsersFiles ==
    { (U1 :> [DEFAULT_PREFERENCES EXCEPT !.status = "onboarding"]),
      (U1 :> ActivePrefs("UTC")) @@ (U2 :> ActivePrefs("UTC")) }

AgentDatabaseFiles ==
    { <<>>, (I1 :> Reminder(I1, U1, <<"utc", 1380>>, 10)),
            (I1 :> Reminder(I1, U2, <<"utc", 1380>>, 10)) }

InitAgent ==
    /\ BaseInit
    /\ bridge_type = "cli"
    /\ prompts \in PromptFiles
    /\ client_ok \in BOOLEAN
    /\ store \in AgentUsersFiles
    /\ users_tasks \in AgentDatabaseFiles

NextAgent ==
    \/ \E message \in AgentMessages : CallHandleUserRequest(U1, message)
    \/ AgentSteps

SpecAgent == InitAgent /\ [][NextAgent]_vars

\* a call that has started runs on: no step of handle_user_request waits
SpecAgentFair == SpecAgent /\ WF_vars(AgentSteps)

(***************************************************************************)
(* The ritual job next to the event loop: one user writing in, the clock   *)
(* advancing, the reminder job and the polling client taking no step.      *)
(***************************************************************************)
RitualTexts == {<<"h", "i">>, <<"/", "m", "o", "r", "n", "i", "n", "g">>}

InitRituals ==
    /\ BaseInit
    /\ bridge_type = "cli"
    /\ prompts = {"kairo_onboarding_system_prompt", "kairo_agent_system_prompt"}
    /\ client_ok = TRUE
    /\ store \in UsersFiles
    /\ users_tasks = <<>>

NextRituals ==
    \/ \E text \in RitualTexts : Incoming(U1, text, NoMessageId)
    \/ RouterSteps
    \/ RitualSteps
    \/ Tick

SpecRituals == InitRituals /\ [][NextRituals]_vars

(***************************************************************************)
(* The reminder job next to the polling client: sends from the scheduler   *)
(* thread interleave with GET /outgoing and POST /ack on the event loop.   *)
(***************************************************************************)
DeliveryUsersFiles ==
    { (U1 :> ActivePrefs("UTC")),
      (U1 :> ActivePrefs("UTC")) @@ (U2 :> ActivePrefs("UTC")),
      (U1 :> [DEFAULT_PREFERENCES EXCEPT !.status = "onboarding"])
          @@ (U2 :> ActivePrefs("UTC")) }

InitDelivery ==
    /\ BaseInit
    /\ bridge_type \in BridgeTypes
    /\ prompts = {}
    /\ client_ok = TRUE
    /\ store \in DeliveryUsersFiles
    /\ users_tasks \in DatabaseFiles

NextDelivery ==
    \/ ReminderSteps
    \/ PollSteps
    \/ Tick

SpecDelivery == InitDelivery /\ [][NextDelivery]_vars

(***************************************************************************)
(* The two interval jobs of the scheduler side by side, with one user      *)
(* whose processing fails in each scan: a timezone pytz does not know in    *)
(* the ritual scan, a remind_at that does not parse in the reminder scan.   *)
(***************************************************************************)
InitScheduler ==
    /\ BaseInit
    /\ bridge_type = "cli"
    /\ prompts = {"kairo_onboarding_system_prompt", "kairo_agent_system_prompt"}
    /\ client_ok = TRUE
    /\ \/ /\ store \in { (U1 :> ActivePrefs("Mars/Phobos")) @@ (U2 :> ActivePrefs("UTC")),
                          (U1 :> ActivePrefs("UTC")) @@ (U2 :> ActivePrefs("Asia/Tokyo")) }
          /\ users_tasks \in
                { (I2 :> Reminder(I2, U1, <<"bad">>, 20))
                     @@ (I3 :> Reminder(I3, U2, <<"utc", 1380>>, 30)),
                  (I1 :> Reminder(I1, U1, <<"utc", 1380>>, 10))
                     @@ (I3 :> Reminder(I3, U2, <<"utc", 2820>>, 30)) }
       \* a user whose morning and evening ritual share their time
       \/ /\ store = (U1 :> [ActivePrefs("UTC") EXCEPT !.evening_reflection_time = <<23, 0>>])
          /\ users_tasks = <<>>

NextScheduler ==
    \/ RitualSteps
    \/ ReminderSteps
    \/ Tick

SpecScheduler == InitScheduler /\ [][NextScheduler]_vars

(***************************************************************************)
(* The preference store under _prefs_lock, statement by statement: calls   *)
(* of get_agent and of update_user_preferences made from the event loop    *)
(* and from the scheduler's thread.  A thread between "lock" and its       *)
(* return to "idle" is inside the with block.                              *)
(***************************************************************************)
\* no lock around the store
prefs_lock_absent(t) == TRUE

\* threading.Lock: free when no other thread is inside a with block
prefs_lock_free(t) ==
    \A o \in Threads \ {t} :
       th[o].pc \notin {"ga_check", "ga_create", "ga_read",
                        "up_check", "up_create", "up_update"}

\* get_agent, the part that reads the store
get_agent_call(t, user_id) ==
    /\ UNCHANGED <<bridge_type, prompts, now, messages, users_tasks, outgoing,
                   next_uuid, pushed, response, requests,
                   events, llm_calls, llm_activity, client_ok, turns>>
    /\ \/ /\ th[t].pc = "idle"
          /\ th' = [th EXCEPT ![t] = [IdleThread EXCEPT !.pc = "ga_lock", !.user_id = user_id]]
          /\ UNCHANGED store
       \/ /\ th[t].pc = "ga_lock" /\ th[t].user_id = user_id
          /\ prefs_lock_free(t)
          /\ th' = [th EXCEPT ![t] = [@ EXCEPT !.pc = "ga_check"]]
          /\ UNCHANGED store
       \/ /\ th[t].pc = "ga_check" /\ th[t].user_id = user_id
          /\ th' = [th EXCEPT ![t] =
                      [@ EXCEPT !.pc = IF user_id \notin DOMAIN store
                                       THEN "ga_create" ELSE "ga_read"]]
          /\ UNCHANGED store
       \/ /\ th[t].pc = "ga_create" /\ th[t].user_id = user_id
          /\ store' = [u \in DOMAIN store \cup {user_id} |->
                          IF u = user_id THEN DEFAULT_PREFERENCES ELSE store[u]]
          /\ th' = [th EXCEPT ![t] = [@ EXCEPT !.pc = "ga_read"]]
       \/ /\ th[t].pc = "ga_read" /\ th[t].user_id = user_id
          /\ th' = [th EXCEPT ![t] =
                      [@ EXCEPT !.pc = "idle",
                                !.preferences = IF user_id \in DOMAIN store
                                                THEN store[user_id]
                                                ELSE DEFAULT_PREFERENCES]]
          /\ UNCHANGED store

update_user_preferences_call(t, user_id, updates) ==
    /\ UNCHANGED <<bridge_type, prompts, now, messages, users_tasks, outgoing,
                   next_uuid, pushed, response, requests,
                   events, llm_calls, llm_activity, client_ok, turns>>
    /\ \/ /\ th[t].pc = "idle"
          /\ th' = [th EXCEPT ![t] = [IdleThread EXCEPT !.pc = "up_lock", !.user_id = user_id,
                                                        !.updates = updates]]
          /\ UNCHANGED store
       \/ /\ th[t].pc = "up_lock" /\ th[t].user_id = user_id /\ th[t].updates = updates
          /\ prefs_lock_free(t)
          /\ th' = [th EXCEPT ![t] = [@ EXCEPT !.pc = "up_check"]]
          /\ UNCHANGED store
       \/ /\ th[t].pc = "up_check" /\ th[t].user_id = user_id /\ th[t].updates = updates
          /\ th' = [th EXCEPT ![t] =
                      [@ EXCEPT !.pc = IF user_id \notin DOMAIN store
                                       THEN "up_create" ELSE "up_update"]]
          /\ UNCHANGED store
       \/ /\ th[t].pc = "up_create" /\ th[t].user_id = user_id /\ th[t].updates = updates
          /\ store' = [u \in DOMAIN store \cup {user_id} |->
                          IF u = user_id THEN DEFAULT_PREFERENCES ELSE store[u]]
          /\ th' = [th EXCEPT ![t] = [@ EXCEPT !.pc = "up_update"]]
       \/ /\ th[t].pc = "up_update" /\ th[t].user_id = user_id /\ th[t].updates = updates
          /\ store' = [store EXCEPT ![user_id] = Merge(@, updates)]
          /\ th' = [th EXCEPT ![t] = [@ EXCEPT !.pc = "idle"]]

InitPrefs ==
    /\ BaseInit
    /\ bridge_type = "cli"
    /\ prompts = {"kairo_onboarding_system_prompt", "kairo_agent_system_prompt"}
    /\ client_ok = TRUE
    /\ store \in {<<>>, (U1 :> DEFAULT_PREFERENCES)}
    /\ users_tasks = <<>>

NextPrefs ==
    \E t \in {"loop", "ritual"}, user_id \in {U1, U2} :
       \/ get_agent_call(t, user_id)
       \/ \E updates \in { [status |-> "onboarding"],
                            [last_morning_trigger_date |-> 0],
                            [status |-> "active", timezone |-> "UTC"] } :
             update_user_preferences_call(t, user_id, updates)

SpecPrefs == InitPrefs /\ [][NextPrefs]_vars

(***************************************************************************)
(* Turns of handle_user_request next to the reminder job, started from a   *)
(* database and a message log that earlier runs have left: a due reminder  *)
(* and a task whose due date has passed, a log that holds raw model        *)
(* answers between the text messages; or a user whose language has no      *)
(* notification template and whose reminder has an empty description.      *)
(***************************************************************************)
InitTurns ==
    /\ now = 1379
    /\ llm_activity = <<>>
    /\ outgoing = <<>>
    /\ next_uuid = 1
    /\ pushed = <<>>
    /\ response = NoResponse
    /\ requests = <<>>
    /\ events = <<>>
    /\ llm_calls = <<>>
    /\ turns = <<>>
    /\ th = [t \in Threads |-> IdleThread]
    /\ bridge_type \in BridgeTypes
    /\ prompts = {"kairo_onboarding_system_prompt", "kairo_agent_system_prompt"}
    /\ client_ok = TRUE
    /\ \/ /\ store = (U1 :> ActivePrefs("UTC"))
          /\ users_tasks =
                (I1 :> Reminder(I1, U1, <<"utc", 1380>>, 10))
                @@ (I2 :> Merge(Reminder(I2, U1, <<>>, 5), [type |-> "task", due_date |-> -5]))
                @@ (I3 :> Merge(Reminder(I3, U2, <<>>, 1), [type |-> "task"]))
          /\ messages =
                [i \in 1..12 |->
                   CASE i % 3 = 1 -> UserLogEntry(U1, <<"message", i>>)
                     [] i % 3 = 2 -> RawResponseLogEntry(U1, <<"raw", i>>)
                     [] OTHER -> AssistantLogEntry(U1, <<"reply", i>>)]
       \/ /\ store = (U1 :> [ActivePrefs("UTC") EXCEPT !.language = "fr"])
          /\ users_tasks =
                (I1 :> [Reminder(I1, U1, <<"utc", 1380>>, 10) EXCEPT !.description = <<>>])
                @@ (I3 :> Reminder(I3, U1, <<"utc", 1380>>, 20))
          /\ messages = <<>>

NextTurns ==
    \/ CallHandleUserRequest(U1, <<"h", "i">>)
    \/ InboundTurn(U1, <<"h", "i">>)
    \/ AgentStart("loop")
    \/ FirstModelFails("loop")
    \/ \E tool_calls \in
            { <<>>,
              WithIds(<<[name |-> "update_item",
                         arguments |-> Json([item_id |-> I1,
                                             updates |-> [status |-> "new"]])]>>),
              WithIds(<<[name |-> "update_item",
                         arguments |-> Json([item_id |-> I1,
                                             updates |-> [item_id |-> I3]])]>>),
              WithIds(<<[name |-> "update_item",
                         arguments |-> Json([item_id |-> I1,
                                             updates |-> [description |->
                                                            <<"reminder", I2>>]])]>>) } :
           FirstModelReturns("loop", <<"Done.">>, tool_calls)
    \/ ExecTool("loop")
    \/ \E fails \in BOOLEAN : SecondModelCall("loop", fails, <<"Done.">>)
    \/ ReminderSteps
    \/ Tick

SpecTurns == InitTurns /\ [][NextTurns]_vars

(***************************************************************************)
(* Properties of the outbound queue.                                       *)
(***************************************************************************)
Range(q) == {q[i] : i \in 1..Len(q)}
QueueIds(q) == {q[i].message_id : i \in 1..Len(q)}
DropAt(q, i) == SubSeq(q, 1, i - 1) \o SubSeq(q, i + 1, Len(q))

\* C6: acknowledge(id) for an id present in the queue reports removed = true
\* and removes exactly the entry carrying that id; every other entry stays,
\* in its order, so that the next drain returns the queue without that entry.
C6_AckRemovesExactlyThatEntry ==
    [][ \A id \in AckIds :
          (Acknowledge(id) /\ id \in QueueIds(outgoing)) =>
             /\ response'.kind = "ack"
             /\ response'.status = 200
             /\ response'.removed = TRUE
             /\ \E i \in 1..Len(outgoing) :
                   /\ outgoing[i].message_id = id
                   /\ outgoing' = DropAt(outgoing, i)
             /\ Len(outgoing') = Len(outgoing) - 1 ]_vars

\* a drain that returns exactly [B] after [A, B] was queued and A acknowledged
C6_Witness ==
    /\ response.kind = "outgoing"
    /\ next_uuid = 3
    /\ Len(response.messages) = 1
    /\ response.messages[1].message_id = 2

\* C7: acknowledge(id) for an id absent from the queue reports removed = false
\* and leaves the queue as it was, also while a send is in progress on the
\* scheduler thread.
C7_AckOfAbsentIdChangesNothing ==
    [][ \A id \in AckIds :
          (Acknowledge(id) /\ id # NoDeliveryId /\ id \notin QueueIds(outgoing)) =>
             /\ response'.kind = "ack"
             /\ response'.status = 200
             /\ response'.removed = FALSE
             /\ outgoing' = outgoing ]_vars

\* an acknowledgement of an absent id answered while the reminder thread is
\* between its audit record and its append to a non-empty queue
C7_Witness ==
    /\ response.kind = "ack"
    /\ response.status = 200
    /\ response.removed = FALSE
    /\ response.message_id \notin QueueIds(outgoing)
    /\ outgoing # <<>>
    /\ th["reminder"].pc = "send_bridge"

\* C8: an entry leaves the queue only by an acknowledgement of its own id;
\* a drain returns the queue as it is and leaves it unchanged; the entries
\* that stay keep their order, new entries are added behind them, and the
\* queue is in enqueue order at all times.
C8_QueueInvariants ==
    [][ /\ Drain => (response'.messages = outgoing /\ outgoing' = outgoing)
        /\ \A i \in 1..Len(outgoing) :
              outgoing[i] \notin Range(outgoing') =>
                 /\ response'.kind = "ack"
                 /\ response'.message_id = outgoing[i].message_id
                 /\ Acknowledge(outgoing[i].message_id)
        /\ LET stay == SelectSeq(outgoing, LAMBDA m : m \in Range(outgoing'))
           IN  /\ Len(outgoing') >= Len(stay)
               /\ SubSeq(outgoing', 1, Len(stay)) = stay
        /\ \A i, j \in 1..Len(outgoing') :
              i < j => outgoing'[i].message_id < outgoing'[j].message_id ]_vars

\* a drain that returned two queued entries, both still in the queue
C8_Witness ==
    /\ response.kind = "outgoing"
    /\ Len(response.messages) = 2
    /\ outgoing = response.messages

(***************************************************************************)
(* Properties of the reminder scan.                                        *)
(***************************************************************************)
Notifications(item) ==
    IF item.user_id \notin DOMAIN store THEN 0
    ELSE Cardinality({ i \in 1..Len(messages) :
             messages[i] = AssistantLogEntry(item.user_id,
                               ReminderText(store[item.user_id].language, item.description)) })

DueInScan(item, scan) ==
    /\ item.type = "reminder"
    /\ Aware(item.remind_at)
    /\ item.remind_at[2] <= scan.now_utc + LookaheadMinutes
    /\ item.user_id \in DOMAIN scan.snap
    /\ scan.snap[item.user_id].status = "active"

ReminderScanDone == th["reminder"].pc = "rem_user" /\ th["reminder"].todo = {}

\* C5: a reminder of an active user that is due when a scan starts (remind_at
\* at most one minute after the scan's clock reading) has been notified and
\* is completed when that scan is done, and no reminder is notified twice.
C5_DueReminderNotifiedAndCompleted ==
    /\ \A id \in DOMAIN users_tasks : Notifications(users_tasks[id]) <= 1
    /\ ReminderScanDone =>
          \A id \in DOMAIN users_tasks :
             DueInScan(users_tasks[id], th["reminder"]) =>
                /\ users_tasks[id].status = "completed"
                /\ Notifications(users_tasks[id]) = 1

PrefsCreated(t) ==
    th[t].pc \in {"ga_create", "up_create"} /\ th'[t].pc # th[t].pc

\* C23: callers of get_agent that meet in the store for a user without a
\* record: a record is created only for a user who has none, it is the
\* default record, no record is ever removed, and each caller returns the
\* record the store holds, so that one record is created and all see it.
C23_OneDefaultRecordForAllCallers ==
    [][ /\ DOMAIN store \subseteq DOMAIN store'
        /\ \A t \in Threads :
              PrefsCreated(t) =>
                 /\ th[t].user_id \notin DOMAIN store
                 /\ store'[th[t].user_id] = DEFAULT_PREFERENCES
        /\ \A t \in Threads :
              (th[t].pc = "ga_read" /\ th'[t].pc = "idle") =>
                 /\ th[t].user_id \in DOMAIN store
                 /\ th'[t].preferences = store[th[t].user_id]
                 /\ store' = store ]_vars

\* one caller has created the record of "2" and is about to return it, the
\* other caller of get_agent for "2" waits for the lock
C23_Witness ==
    /\ th["loop"].pc = "ga_read" /\ th["loop"].user_id = U2
    /\ th["ritual"].pc = "ga_lock" /\ th["ritual"].user_id = U2
    /\ U2 \in DOMAIN store /\ store[U2] = DEFAULT_PREFERENCES

\* C24: update_user_preferences is an atomic shallow merge: a key of a
\* stored record changes only in the merge of a call that writes that key,
\* and to the value it writes; the merge installs every key of its updates;
\* a record that appears is the default record.
C24_UpdateIsAtomicShallowMerge ==
    [][ /\ DOMAIN store \subseteq DOMAIN store'
        /\ \A u \in DOMAIN store' \ DOMAIN store : store'[u] = DEFAULT_PREFERENCES
        /\ \A u \in DOMAIN store : \A k \in DOMAIN store[u] :
              store'[u][k] # store[u][k] =>
                 \E t \in Threads :
                    /\ th[t].pc = "up_update" /\ th'[t].pc = "idle"
                    /\ th[t].user_id = u
                    /\ k \in DOMAIN th[t].updates
                    /\ store'[u][k] = th[t].updates[k]
        /\ \A t \in Threads :
              (th[t].pc = "up_update" /\ th'[t].pc = "idle") =>
                 \A k \in DOMAIN th[t].updates :
                    store'[th[t].user_id][k] = th[t].updates[k] ]_vars

\* the scheduler's thread waits with its trigger date while the event loop
\* is about to merge a status into the same record
C24_Witness ==
    /\ th["loop"].pc = "up_update" /\ th["loop"].user_id = U1
    /\ "status" \in DOMAIN th["loop"].updates
    /\ th["ritual"].pc = "up_lock" /\ th["ritual"].user_id = U1
    /\ th["ritual"].updates = [last_morning_trigger_date |-> 0]
    /\ U1 \in DOMAIN store /\ store[U1].last_morning_trigger_date = NoDate

\* C25: the preferences of the context bundle are a snapshot for reading:
\* a stored record changes only in a call of update_user_preferences (here
\* the one that sets the status to onboarding), and the date the router
\* writes into the bundle never reaches the stored record.
C25_StoredRecordChangesOnlyByUpdate ==
    [][ \A u \in DOMAIN store \cap DOMAIN store' :
           store'[u] # store[u] =>
              /\ th["loop"].pc = "set_onboarding"
              /\ th["loop"].user_id = u
              /\ store'[u].current_utc_date = store[u].current_utc_date ]_vars

\* the step in which a turn receives get_agent's bundle
ContextBuilt == th["loop"].pc = "idle" /\ th'["loop"].pc = "agent_start"

\* C26: the items of the bundle are exactly the user's items of status new
\* or in_progress whose due date, if they have one, is not before the
\* current UTC date.
C26_ActiveItemsExcludePastDue ==
    [][ ContextBuilt =>
          {row.item_id : row \in Range(th'["loop"].items)} =
             {id \in DOMAIN users_tasks :
                 /\ users_tasks[id].user_id = th'["loop"].user_id
                 /\ users_tasks[id].status \in {"new", "in_progress"}
                 /\ "due_date" \in DOMAIN users_tasks[id]
                       => users_tasks[id].due_date >= DateOf(now)} ]_vars

TextRecords(user_id) ==
    SelectSeq(messages, LAMBDA m : /\ m.user_id = user_id
                                   /\ m.message_type \in {"user_text", "agent_text_response"})

\* C27: the history of the bundle is the last ten user and assistant text
\* records of the user, oldest first; records of other kinds (raw model
\* answers) are neither included nor counted.
C27_HistoryIsLastTenTextRecords ==
    [][ ContextBuilt =>
          LET recent == LastN(TextRecords(th'["loop"].user_id), 10)
          IN  th'["loop"].history =
                 [i \in 1..Len(recent) |->
                     Entry(recent[i].role, "", "", recent[i].content, NoResult, <<>>)] ]_vars

\* the tool call the turn executes next is an update_item whose item_id names
\* no stored item or an item of another user
UpdatesForeignItem ==
    /\ th["loop"].pc = "tools" /\ th["loop"].calls # <<>>
    /\ LET tool_call == Head(th["loop"].calls)
       IN  /\ tool_call.name = "update_item"
           /\ ValidArguments("update_item", tool_call.arguments)
           /\ LET item_id == model_dump("update_item", tool_call.arguments).item_id
              IN  \/ item_id \notin DOMAIN users_tasks
                  \/ users_tasks[item_id].user_id # th["loop"].user_id

\* C28: an update_item call on an item that does not exist or belongs to
\* another user returns success = false and leaves every stored item as
\* it was.
C28_UpdateOfForeignItemFails ==
    [][ (UpdatesForeignItem /\ th'["loop"] # th["loop"]) =>
           /\ users_tasks' = users_tasks
           /\ Len(th'["loop"].transcript) = Len(th["loop"].transcript) + 1
           /\ LET answer == th'["loop"].transcript[Len(th'["loop"].transcript)]
              IN  /\ answer.role = "tool" /\ answer.name = "update_item"
                  /\ answer.result.success = FALSE ]_vars

\* user "1" has asked to update item 101 of user "2" and was refused
C28_Witness ==
    /\ I1 \in DOMAIN users_tasks /\ users_tasks[I1].user_id = U2
    /\ users_tasks[I1].status = "new"
    /\ \E a \in 1..Len(llm_activity) :
          /\ llm_activity[a].user_id = U1
          /\ llm_activity[a].tool_name = "update_item"
          /\ llm_activity[a].tool_args.item_id = I1
          /\ llm_activity[a].tool_result.success = FALSE

\* C29: completed and deleted are terminal: an item that has one of these
\* statuses keeps it in every step.
C29_CompletedAndDeletedAreTerminal ==
    [][ \A id \in DOMAIN users_tasks :
           users_tasks[id].status \in {"completed", "deleted"} =>
              /\ id \in DOMAIN users_tasks'
              /\ users_tasks'[id].status = users_tasks[id].status ]_vars

SendRecords(u, text) ==
    Cardinality({i \in 1..Len(messages) :
                    messages[i] = [user_id |-> u, role |-> "assistant",
                                   message_type |-> "agent_text_response",
                                   content |-> text]})

AcceptedSends(u, text) ==
    Cardinality({i \in 1..Len(outgoing) :
                    /\ outgoing[i].message = text
                    /\ outgoing[i].user_id = QueueEntry(bridge_type, u, text, 0).user_id})
    + Cardinality({i \in 1..Len(pushed) : pushed[i] = [user_id |-> u, message |-> text]})

SendsInHand(u, text) ==
    Cardinality({t \in Threads :
                    th[t].pc = "send_bridge" /\ th[t].user_id = u /\ th[t].out = text})

SentTexts ==
    {outgoing[i].message : i \in 1..Len(outgoing)}
    \cup {pushed[i].message : i \in 1..Len(pushed)}
    \cup {th[t].out : t \in {o \in Threads : th[o].pc = "send_bridge"}}

\* C30: every send a bridge has accepted, and every send on its way to the
\* bridge, has one assistant text record of its own (on the queue bridges,
\* which accept every send, there are no further records of that text); a
\* send with an empty recipient or an empty text adds no record and no
\* outgoing message and lets its caller go on.
C30_OneRecordPerSendAndEmptySendIsNoOp ==
    /\ [](\A u \in {U1, U2} : \A text \in SentTexts :
            /\ text # <<>>
            /\ AcceptedSends(u, text) + SendsInHand(u, text) <= SendRecords(u, text)
            /\ bridge_type \in {"cli", "whatsapp"} =>
                  AcceptedSends(u, text) + SendsInHand(u, text) = SendRecords(u, text))
    /\ [][ \A t \in Threads :
             (/\ th[t].pc = "send_log"
              /\ th[t].user_id = <<>> \/ th[t].out = <<>>
              /\ th'[t] # th[t]) =>
                /\ messages' = messages /\ outgoing' = outgoing /\ pushed' = pushed
                /\ th'[t].pc = th[t].after ]_vars

\* one scan has met a reminder whose notification text is empty and one
\* whose text is not: both are completed, one message is queued, one record
\* is in the log
C30_Witness ==
    /\ bridge_type = "whatsapp"
    /\ I1 \in DOMAIN users_tasks /\ I3 \in DOMAIN users_tasks
    /\ users_tasks[I1].description = <<>> /\ users_tasks[I1].status = "completed"
    /\ users_tasks[I3].status = "completed"
    /\ Len(outgoing) = 1 /\ outgoing[1].message = users_tasks[I3].description
    /\ Len(messages) = 1 /\ SendRecords(U1, users_tasks[I3].description) = 1

\* C22: no reminder has been notified twice, whatever turns of its user
\* have run between the scans and whatever they wrote into the reminder.
C22_ReminderNotifiedAtMostOnce ==
    \A id \in DOMAIN users_tasks :
       users_tasks[id].type = "reminder" => Notifications(users_tasks[id]) <= 1

\* a reminder the scan reads (status new, of a user the scan treats as active)
\* whose remind_at datetime.fromisoformat rejects
UnparseableInScan(item, scan) ==
    /\ item.type = "reminder"
    /\ item.status = "new"
    /\ item.remind_at # <<>>
    /\ ~Parses(item.remind_at)
    /\ item.user_id \in DOMAIN scan.snap
    /\ scan.snap[item.user_id].status = "active"

\* C11: when a scan that met a reminder with an unparseable remind_at is
\* done, every other reminder that was due in that scan, of the same user or
\* of another user, is completed and has been notified.
C11_UnparseableReminderBlocksNoOther ==
    (/\ ReminderScanDone
     /\ \E bad \in DOMAIN users_tasks :
           UnparseableInScan(users_tasks[bad], th["reminder"]))
    => \A id \in DOMAIN users_tasks :
          DueInScan(users_tasks[id], th["reminder"]) =>
             /\ users_tasks[id].status = "completed"
             /\ Notifications(users_tasks[id]) = 1

\* every reminder of the item's user that has a remind_at has one with a
\* UTC offset: the scan meets no failure while it processes that user
UserScansCleanly(user_id) ==
    \A id \in DOMAIN users_tasks :
       (/\ users_tasks[id].user_id = user_id
        /\ users_tasks[id].type = "reminder"
        /\ users_tasks[id].remind_at # <<>>) => Aware(users_tasks[id].remind_at)

\* one step of a scan job: the scan ends only when no user is left, and as
\* long as it runs users leave the work list one at a time
ScanGoesOn(job) ==
    LET a == th[job]
        b == th'[job]
    IN  /\ (a.pc # "idle" /\ b.pc = "idle") => a.todo = {}
        /\ (a.pc # "idle" /\ b.pc # "idle") =>
              /\ b.snap = a.snap
              /\ b.todo = a.todo \/ \E u \in a.todo : b.todo = a.todo \ {u}

\* C12: in both scans a user whose processing fails costs the scan nothing
\* but that user: the scan ends only after every user of its snapshot has
\* been taken up, a user whose reminders are well-formed has every due
\* reminder notified and completed whatever happened to the users before,
\* and each job can start whenever it is not running, whatever the state of
\* the other job.
C12_ScanSurvivesUserFailure ==
    /\ [](ReminderScanDone =>
            \A id \in DOMAIN users_tasks :
               (DueInScan(users_tasks[id], th["reminder"])
                  /\ UserScansCleanly(users_tasks[id].user_id)) =>
                     /\ users_tasks[id].status = "completed"
                     /\ Notifications(users_tasks[id]) = 1)
    /\ []((th["ritual"].pc = "idle" => ENABLED RitualScanStart)
          /\ (th["reminder"].pc = "idle" => ENABLED ReminderScanStart))
    /\ [][ScanGoesOn("ritual") /\ ScanGoesOn("reminder")]_vars

\* the ritual scan has stepped over the user with the unknown timezone and
\* raised the morning event of the user after it; the reminder scan has left
\* the unparseable reminder of the first user alone and completed the due
\* reminder of the second
C12_Witness ==
    /\ store[U1].timezone \notin KnownTimezones
    /\ th["ritual"].pc = "r_user" /\ th["ritual"].todo = {}
    /\ th["ritual"].user_id = U2
    /\ \E i \in 1..Len(events) : events[i] = TriggerEvent(U2, "morning_muster", 0)
    /\ ReminderScanDone
    /\ th["reminder"].user_id = U2
    /\ I2 \in DOMAIN users_tasks /\ users_tasks[I2].status = "new"
    /\ users_tasks[I3].status = "completed"
    /\ Notifications(users_tasks[I3]) = 1

(***************************************************************************)
(* Properties of the user status and of the ritual scan.                   *)
(***************************************************************************)
StatusRank(user_status) ==
    CASE user_status = "new" -> 0
      [] user_status = "onboarding" -> 1
      [] user_status = "active" -> 2
      [] OTHER -> -1

\* C3: in no step does a stored user's status go back: active stays active,
\* onboarding never becomes new, whatever order the router's and the
\* scheduler's preference writes take.
C3_StatusNeverRegresses ==
    [][ \A u \in DOMAIN store :
          /\ u \in DOMAIN store'
          /\ StatusRank(store'[u].status) >= StatusRank(store[u].status) ]_vars

\* an active user who wrote in (the router stamped the date) and whose
\* morning trigger date the scheduler recorded afterwards
C3_Witness ==
    /\ U1 \in DOMAIN store
    /\ store[U1].status = "active"
    /\ store[U1].current_utc_date # NoDate
    /\ store[U1].last_morning_trigger_date # NoDate
    /\ \E i \in 1..Len(requests) : requests[i].outcome # "accepted"

ScheduledEvents(u, trigger_type, today) ==
    { i \in 1..Len(events) : events[i] = TriggerEvent(u, trigger_type, today) }

RitualTime(prefs, trigger_type) ==
    IF trigger_type = "morning_muster"
    THEN prefs.morning_muster_time ELSE prefs.evening_reflection_time

\* C4: the scheduler raises a ritual at most once per user, ritual and local
\* date; and once the scan is through with an active user on an allowed
\* weekday whose local time equals the ritual's time, the ritual has been
\* raised exactly once for that local date: a second matching tick of the
\* same date adds nothing, the first matching tick of the next date raises
\* it again.
C4_RitualOncePerLocalDate ==
    /\ \A i, j \in 1..Len(events) :
          (i < j /\ events[i].source = "scheduler") => events[i] # events[j]
    /\ LET me == th["ritual"]
       IN  (me.pc = "r_user" /\ me.user_id # <<>>
               /\ WeekdayOf(me.today) \in RitualDays(me.snap[me.user_id])) =>
              \A trigger_type \in {"morning_muster", "evening_reflection"} :
                 me.hm = RitualTime(me.snap[me.user_id], trigger_type) =>
                    Cardinality(ScheduledEvents(me.user_id, trigger_type, me.today)) = 1

\* a second matching scan on a date whose trigger was already recorded, after
\* the ritual had been raised on the previous date as well
C4_Witness ==
    LET me == th["ritual"]
    IN  /\ me.pc = "r_user" /\ me.user_id # <<>>
        /\ me.hm = me.snap[me.user_id].morning_muster_time
        /\ me.snap[me.user_id].last_morning_trigger_date = me.today
        /\ ScheduledEvents(me.user_id, "morning_muster", me.today) # {}
        /\ ScheduledEvents(me.user_id, "morning_muster", me.today - 1) # {}

RitualScanDone == th["ritual"].pc = "r_user" /\ th["ritual"].todo = {}

\* the ritual of user u is due in the minute t: the user is active, has a
\* timezone pytz knows, t falls on an allowed weekday at the configured time
\* and no trigger is recorded for that local date
RitualDueAt(prefs, ritual, t) ==
    /\ prefs.status = "active"
    /\ prefs.timezone \in KnownTimezones
    /\ LET now_local == LocalMinutes(prefs.timezone, t)
           hm == HourMinuteOf(now_local)
           today == DateOf(now_local)
       IN  /\ WeekdayOf(today) \in RitualDays(prefs)
           /\ IF ritual = "morning_muster" THEN MorningDue(prefs, hm, today)
              ELSE EveningDue(prefs, hm, today)

\* C21: when a ritual scan is done, every user whose ritual was due in the
\* minute in which the scan started has had the trigger event of that ritual
\* raised for that local date.
C21_DueRitualFiresInItsScan ==
    RitualScanDone =>
       \A u \in DOMAIN th["ritual"].snap :
          \A ritual \in {"morning_muster", "evening_reflection"} :
             RitualDueAt(th["ritual"].snap[u], ritual, th["ritual"].now_utc) =>
                \E e \in 1..Len(events) :
                   events[e] = TriggerEvent(u, ritual,
                       DateOf(LocalMinutes(th["ritual"].snap[u].timezone,
                                           th["ritual"].now_utc)))

(***************************************************************************)
(* Properties of inbound routing.                                          *)
(***************************************************************************)
Handled(i) == i <= Len(requests) /\ (th["loop"].pc = "idle" \/ i < th["loop"].req)

UserEntries(u, text) ==
    Cardinality({ k \in 1..Len(messages) : messages[k] = UserLogEntry(u, text) })

Deliveries(u, text) ==
    { k \in 1..Len(requests) :
        normalize_user_id(requests[k].user_id) = u /\ requests[k].message = text }

ProcessedTurns(u, text) ==
    { k \in Deliveries(u, text) :
        requests[k].outcome \notin {"rejected", "TypeError", "dropped"} }

\* the turns due for the deliveries of one text by one user: one for each
\* message id, one for each delivery without an id
TurnsDue(u, text) ==
    Cardinality({ requests[k].message_id :
                     k \in {d \in Deliveries(u, text) : requests[d].message_id # NoMessageId} })
    + Cardinality({ d \in Deliveries(u, text) : requests[d].message_id = NoMessageId })

\* C1: once two deliveries of the same message by the same user under the
\* same message id have been handled, exactly one turn was processed and
\* exactly one audit entry with role user was written for that message id.
C1_DuplicateDeliveryProcessedOnce ==
    \A i, j \in 1..Len(requests) :
       LET u == normalize_user_id(requests[i].user_id)
           text == requests[i].message
       IN  ( /\ i < j /\ Handled(j)
             /\ u # <<>>
             /\ normalize_user_id(requests[j].user_id) = u
             /\ requests[j].message = text
             /\ requests[i].message_id # NoMessageId
             /\ requests[j].message_id = requests[i].message_id ) =>
               /\ UserEntries(u, text) = TurnsDue(u, text)
               /\ Cardinality(ProcessedTurns(u, text)) = TurnsDue(u, text)

\* C9: a user who was welcomed and whose status is onboarding sends a text
\* that is no command, the onboarding prompt being configured: when the
\* router is done with it, the model has been called for that user with the
\* onboarding system prompt.
C9_OnboardingMessageReachesModel ==
    \A i, j \in 1..Len(requests) :
       LET u == normalize_user_id(requests[j].user_id)
       IN  ( /\ i < j /\ Handled(j)
             /\ normalize_user_id(requests[i].user_id) = u
             /\ requests[i].outcome = "welcome"
             /\ requests[j].status = "onboarding"
             /\ "kairo_onboarding_system_prompt" \in prompts ) =>
               \E c \in 1..Len(llm_calls) :
                  /\ llm_calls[c].user_id = u
                  /\ llm_calls[c].prompt = "kairo_onboarding_system_prompt"

(***************************************************************************)
(* Properties of one turn of handle_user_request.                          *)
(***************************************************************************)
Registered(calls) == SelectSeq(calls, LAMBDA c : c.name \in AVAILABLE_TOOLS)
ToolEntries(transcript) == SelectSeq(transcript, LAMBDA e : e.role = "tool")
SecondCalls(k) ==
    { c \in 1..Len(llm_calls) : llm_calls[c].turn = k /\ ~llm_calls[c].tools }
Executed(k, call) ==
    { a \in 1..Len(llm_activity) :
        /\ llm_activity[a].turn = k
        /\ llm_activity[a].tool_call_id = call.id
        /\ llm_activity[a].tool_name = call.name }

\* C2: for every finished turn whose first model answer requested tools, the
\* second model call was made, and the transcript it was given holds one
\* tool entry for each invocation of a registered tool, in the order of the
\* invocations: an error payload where the arguments were invalid, and where
\* they were valid the result of the one execution of that invocation (a
\* result that reports a failure carries an error text).
C2_ToolIsolation ==
    \A k \in 1..Len(turns) :
       turns[k].tool_calls # <<>> =>
          /\ Cardinality(SecondCalls(k)) = 1
          /\ \A c \in SecondCalls(k) :
                LET entries == ToolEntries(llm_calls[c].messages)
                    reg == Registered(turns[k].tool_calls)
                IN  /\ Len(entries) = Len(reg)
                    /\ \A i \in 1..Len(reg) :
                          /\ entries[i].tool_call_id = reg[i].id
                          /\ entries[i].name = reg[i].name
                          /\ IF ValidArguments(reg[i].name, reg[i].arguments)
                             THEN /\ entries[i].result.kind = "result"
                                  /\ Cardinality(Executed(k, reg[i])) = 1
                                  /\ \A a \in Executed(k, reg[i]) :
                                        llm_activity[a].tool_result = entries[i].result
                                  /\ ~entries[i].result.success => entries[i].result.error # ""
                             ELSE /\ entries[i].result.kind = "error"
                                  /\ Executed(k, reg[i]) = {}

\* a finished turn of three invocations: the second with invalid arguments,
\* the first and the third executed, the third one after the failure
C2_Witness ==
    \E k \in 1..Len(turns) :
       LET calls == turns[k].tool_calls
       IN  /\ Len(calls) = 3
           /\ \A i \in 1..3 : calls[i].name \in AVAILABLE_TOOLS
           /\ ValidArguments(calls[1].name, calls[1].arguments)
           /\ ~ValidArguments(calls[2].name, calls[2].arguments)
           /\ ValidArguments(calls[3].name, calls[3].arguments)
           /\ Executed(k, calls[1]) # {}
           /\ Executed(k, calls[3]) # {}
           /\ SecondCalls(k) # {}

\* C10: every finished call of handle_user_request ended by returning, and
\* what it returned is the text of a model answer (which may be nothing) or
\* the generic error text; whenever the client or the prompt is missing the
\* call returns without a model call; and every call that has started ends.
C10_TurnAlwaysReturns ==
    /\ [](\A k \in 1..Len(turns) :
             /\ turns[k].outcome = "returned"
             /\ turns[k].reply \in ModelContents \cup {GENERIC_ERROR_MSG}
             /\ (~client_ok \/ PromptKeyAgent(store[turns[k].user_id].status) \notin prompts)
                   => (turns[k].tool_calls = <<>> /\ turns[k].reply = GENERIC_ERROR_MSG))
    /\ (th["loop"].pc # "idle") ~> (th["loop"].pc = "idle")

\* a turn that returned the generic error text after an invocation with
\* invalid arguments and a second model call that failed
C10_Witness ==
    \E k \in 1..Len(turns) :
       /\ turns[k].outcome = "returned"
       /\ turns[k].reply = GENERIC_ERROR_MSG
       /\ \E i \in 1..Len(turns[k].tool_calls) :
             LET call == turns[k].tool_calls[i]
             IN  call.name \in AVAILABLE_TOOLS /\ ~ValidArguments(call.name, call.arguments)
       /\ SecondCalls(k) # {}

\* the invocations of a turn that can be applied: registered tool, arguments
\* the tool's parameter model accepts
Applicable(calls) ==
    SelectSeq(calls, LAMBDA c : c.name \in AVAILABLE_TOOLS /\ ValidArguments(c.name, c.arguments))

\* the applications of turn k, in the order they were made
Applications(k) == SelectSeq(llm_activity, LAMBDA a : a.turn = k)

AppliedOnceInOrder(k, calls) ==
    LET due == Applicable(calls)
        made == Applications(k)
    IN  /\ Len(made) = Len(due)
        /\ \A i \in 1..Len(due) :
              /\ made[i].tool_call_id = due[i].id
              /\ made[i].tool_name = due[i].name
              /\ made[i].tool_args = model_dump(due[i].name, due[i].arguments)

\* the items the create tools have inserted
CreatedItems == { id \in DOMAIN users_tasks : id < next_uuid }

\* C13: the applications of a finished turn are those of its invocations
\* that name a registered tool and carry valid arguments, one application
\* each, in the order of the invocations (an invocation is left out only for
\* its own arguments, never for another invocation, and none is applied
\* twice); every successful create left exactly one item of the turn's user;
\* and at the step that makes the second model call all of them have been
\* made, that step itself applying nothing.
C13_EachInvocationAppliedOnce ==
    /\ [](/\ \A k \in 1..Len(turns) : AppliedOnceInOrder(k, turns[k].tool_calls)
          /\ Cardinality(CreatedItems) =
                Cardinality({ a \in 1..Len(llm_activity) :
                                /\ llm_activity[a].tool_name \in {"create_task", "create_reminder"}
                                /\ llm_activity[a].tool_result.success })
          /\ \A a \in 1..Len(llm_activity) :
                (llm_activity[a].tool_name \in {"create_task", "create_reminder"}
                   /\ llm_activity[a].tool_result.success) =>
                      /\ llm_activity[a].tool_result.item_id \in CreatedItems
                      /\ users_tasks[llm_activity[a].tool_result.item_id].user_id
                            = llm_activity[a].user_id)
    /\ [][\A fails \in BOOLEAN, content \in ModelContents :
             SecondModelCall("loop", fails, content) =>
                /\ AppliedOnceInOrder(Len(turns) + 1, th["loop"].calls_made)
                /\ llm_activity' = llm_activity
                /\ users_tasks' = users_tasks
                /\ store' = store]_vars

\* a finished turn whose model answer asked twice for the same task with an
\* invocation of invalid arguments in between: two applications, two items
C13_Witness ==
    \E k \in 1..Len(turns) :
       LET calls == turns[k].tool_calls
       IN  /\ Len(calls) = 3
           /\ calls[1].name = "create_task" /\ calls[3].name = "create_task"
           /\ calls[1].arguments = calls[3].arguments
           /\ ValidArguments(calls[1].name, calls[1].arguments)
           /\ calls[2].name \in AVAILABLE_TOOLS
           /\ ~ValidArguments(calls[2].name, calls[2].arguments)
           /\ Len(Applications(k)) = 2
           /\ Cardinality(CreatedItems) = 2
           /\ SecondCalls(k) # {}

(***************************************************************************)
(* Properties of the router's outbound messages.                           *)
(***************************************************************************)
Sends == { i \in 1..Len(messages) : messages[i].message_type = "agent_text_response" }

\* C14: every outbound message the router writes answers the inbound message
\* logged directly before it, so no inbound message, and no trigger event
\* raised by one, has two outbound messages; and the bridge has been handed
\* no more messages than the router wrote (one less while the last one is
\* on its way to the bridge).
C14_AtMostOneOutboundPerMessage ==
    /\ \A i \in Sends :
          /\ i > 1
          /\ messages[i - 1].role = "user"
          /\ messages[i - 1].user_id = messages[i].user_id
    /\ Cardinality(Sends) <= Len(requests)
    /\ LET written == Cardinality(Sends)
           in_flight == IF th["loop"].pc = "send_bridge" THEN 1 ELSE 0
       IN  IF bridge_type = "twilio"
           THEN Len(pushed) <= written - in_flight
           ELSE next_uuid - 1 = written - in_flight

\* two inbound messages of one user, the first answered by the welcome, the
\* second by the fallback error, both handed to the queue bridge
C14_Witness ==
    /\ Len(messages) = 4
    /\ messages[2] = AssistantLogEntry(U1, WelcomeText("en"))
    /\ messages[4] = AssistantLogEntry(U1, GENERIC_ERROR_MSG_ROUTER)
    /\ messages[1].role = "user" /\ messages[3].role = "user"
    /\ next_uuid = 3
    /\ th["loop"].pc = "idle"

(***************************************************************************)
(* Properties of the model calls of a turn.                                *)
(***************************************************************************)
FirstCalls(k) ==
    { c \in 1..Len(llm_calls) : llm_calls[c].turn = k /\ llm_calls[c].tools }

\* C15: a turn has at most one first and one second model call; a finished
\* turn has a second call exactly if its first call returned invocations;
\* a first answer without invocations ends the turn with its content and
\* one with invocations enters the tool loop; tools run in the tool loop
\* only, and the step that makes the second call ends the turn, so that
\* nothing is executed after it.
C15_AtMostTwoModelCalls ==
    /\ [](/\ \A k \in 1..(Len(turns) + 1) :
                /\ Cardinality(FirstCalls(k)) <= 1
                /\ Cardinality(SecondCalls(k)) <= 1
                /\ SecondCalls(k) # {} => FirstCalls(k) # {}
          /\ \A k \in 1..Len(turns) :
                SecondCalls(k) # {} <=> turns[k].tool_calls # <<>>)
    /\ [][LET me == th["loop"]
              after == th'["loop"]
          IN  /\ (me.pc = "first_call" /\ messages' # messages) =>
                    IF after.pc = "tools"
                    THEN /\ after.calls_made # <<>>
                         /\ turns' = turns /\ llm_calls' = llm_calls
                    ELSE /\ Len(turns') = Len(turns) + 1
                         /\ turns'[Len(turns')].tool_calls = <<>>
                         /\ turns'[Len(turns')].reply = messages'[Len(messages')].content
                         /\ llm_calls' = llm_calls
              /\ (llm_activity' # llm_activity \/ users_tasks' # users_tasks
                     \/ next_uuid' # next_uuid) =>
                    (me.pc = "tools" /\ after.pc = "tools"
                       /\ SecondCalls(Len(turns) + 1) = {})
              /\ (Len(llm_calls') > Len(llm_calls) /\ ~llm_calls'[Len(llm_calls')].tools) =>
                    (Len(turns') = Len(turns) + 1 /\ after.pc = "idle")]_vars

\* a finished turn with both model calls and an applied tool in between, the
\* reply being the second call's content
C15_Witness ==
    \E k \in 1..Len(turns) :
       /\ turns[k].tool_calls # <<>>
       /\ Cardinality(FirstCalls(k)) = 1
       /\ Cardinality(SecondCalls(k)) = 1
       /\ Applications(k) # <<>>
       /\ turns[k].reply = <<"Done.">>

\* C16: from the start of handle_user_request up to the answer of the first
\* model call no step changes an item, a preference record or the tool audit
\* log, and the step at which the first model call fails ends the turn
\* there: it returns the generic error text, no invocation was received and
\* no tool has been applied in that turn.
C16_FirstCallFailureChangesNothing ==
    [][/\ th["loop"].pc \in {"agent_start", "first_call"} =>
             /\ users_tasks' = users_tasks
             /\ store' = store
             /\ llm_activity' = llm_activity
             /\ next_uuid' = next_uuid
       /\ FirstModelFails("loop") =>
             /\ Applications(Len(turns) + 1) = <<>>
             /\ Len(turns') = Len(turns) + 1
             /\ turns'[Len(turns')].outcome = "returned"
             /\ turns'[Len(turns')].reply = GENERIC_ERROR_MSG
             /\ turns'[Len(turns')].tool_calls = <<>>
             /\ th'["loop"].pc = "idle"]_vars

\* a finished turn whose first model call was made and never answered: the
\* generic error text, no second call, the one stored item untouched
C16_Witness ==
    \E k \in 1..Len(turns) :
       /\ FirstCalls(k) # {}
       /\ SecondCalls(k) = {}
       /\ \A i \in 1..Len(messages) : messages[i].message_type # "agent_raw_response"
       /\ turns[k].reply = GENERIC_ERROR_MSG
       /\ llm_activity = <<>>
       /\ users_tasks = (I1 :> Reminder(I1, U1, <<"utc", 1380>>, 10))

\* the second model call of finished turn k was made and failed
SecondCallFailed(k) == SecondCalls(k) # {} /\ turns[k].reply = GENERIC_ERROR_MSG

\* C17: the step at which the second model call fails ends the turn with
\* the generic error text and touches no item, preference record or audit
\* record; and after such a turn what its tools did is still in storage:
\* every item a create tool reported is stored for the turn's user, an item
\* update_item reported carries the status it was given, and a user whose
\* onboarding was finalized is active.
C17_SecondCallFailureKeepsToolEffects ==
    /\ [][(\E content \in ModelContents : SecondModelCall("loop", TRUE, content)) =>
             /\ Len(turns') = Len(turns) + 1
             /\ turns'[Len(turns')].outcome = "returned"
             /\ turns'[Len(turns')].reply = GENERIC_ERROR_MSG
             /\ users_tasks' = users_tasks
             /\ store' = store
             /\ llm_activity' = llm_activity]_vars
    /\ [](\A k \in 1..Len(turns) :
             SecondCallFailed(k) =>
                \A i \in 1..Len(Applications(k)) :
                   LET a == Applications(k)[i]
                   IN  a.tool_result.success =>
                          CASE a.tool_name \in {"create_task", "create_reminder"} ->
                                   /\ a.tool_result.item_id \in DOMAIN users_tasks
                                   /\ users_tasks[a.tool_result.item_id].user_id = a.user_id
                                   /\ users_tasks[a.tool_result.item_id].description
                                         = a.tool_args.description
                            [] a.tool_name = "update_item" ->
                                   \A f \in DOMAIN a.tool_args.updates :
                                      users_tasks[a.tool_args.item_id][f] = a.tool_args.updates[f]
                            [] a.tool_name = "finalize_onboarding" ->
                                   store[a.user_id].status = "active"
                            [] OTHER -> a.user_id \in DOMAIN store)

\* a turn of an onboarding user that created a task and finalized the
\* onboarding before its second model call failed: the task is stored and
\* the user is active
C17_Witness ==
    \E k \in 1..Len(turns) :
       /\ SecondCallFailed(k)
       /\ \E i, j \in 1..Len(Applications(k)) :
             /\ Applications(k)[i].tool_name = "create_task"
             /\ Applications(k)[i].tool_result.success
             /\ Applications(k)[i].tool_result.item_id \in DOMAIN users_tasks
             /\ Applications(k)[j].tool_name = "finalize_onboarding"
       /\ store[turns[k].user_id].status = "active"
       /\ store[turns[k].user_id].timezone = "None"

(***************************************************************************)
(* Properties of the fallback error message.                               *)
(***************************************************************************)
GenericErrorSends(u) ==
    { i \in 1..Len(messages) : messages[i] = AssistantLogEntry(u, GENERIC_ERROR_MSG_ROUTER) }

\* inbound messages of user u whose turn failed: no prompt, or an exception
\* on the orchestrator path
FailedInbound(u) ==
    { r \in 1..Len(requests) :
        /\ normalize_user_id(requests[r].user_id) = u
        /\ requests[r].outcome \in {"no_prompt", "agent_exception"} }

\* trigger events of user u whose turn failed: the user is active, and the
\* prompt is missing or the call of the orchestrator raises
FailedEvents(u) ==
    { e \in 1..Len(events) :
        /\ events[e].user_id = u
        /\ store[u].status = "active"
        /\ \/ "kairo_agent_system_prompt" \notin prompts
           \/ ~KeywordsBind(RouterCallKeywords, HandleUserRequestParams) }

\* C18: once the router is at rest, each user has been sent as many generic
\* error messages as turns of that user have failed, the turns started by
\* an inbound message and those started by a trigger event alike.
C18_EveryFailureSendsGenericError ==
    (th["loop"].pc = "idle" /\ th["ritual"].pc \in {"idle", "r_user"}) =>
       \A u \in DOMAIN store :
          Cardinality(GenericErrorSends(u)) =
             Cardinality(FailedInbound(u)) + Cardinality(FailedEvents(u))

(***************************************************************************)
(* Properties of the welcome.                                              *)
(***************************************************************************)
WelcomeSends(u) ==
    { i \in 1..Len(messages) :
        /\ messages[i].user_id = u
        /\ messages[i].message_type = "agent_text_response"
        /\ \E lang \in TemplateLanguages \cup {"None"} : messages[i].content = WelcomeText(lang) }

\* C19: an inbound message that is no command and finds its user with status
\* new takes the welcome path; once it is handled the welcome is in the log
\* for that user and the user is no longer new; and from the reading of the
\* status to the end of that path no step calls the model, starts a turn,
\* applies a tool or touches an item, the one status written being
\* onboarding.
C19_NewUserIsWelcomedWithoutModel ==
    /\ [](\A r \in 1..Len(requests) :
             requests[r].status = "new" =>
                /\ requests[r].outcome = "welcome"
                /\ Handled(r) =>
                      LET u == normalize_user_id(requests[r].user_id)
                      IN  /\ WelcomeSends(u) # {}
                          /\ store[u].status # "new")
    /\ [][LET me == th["loop"]
              on_welcome_path ==
                  \/ me.pc = "read_status" /\ store[me.user_id].status = "new"
                  \/ me.pc \in {"send_log", "send_bridge"} /\ me.after = "set_onboarding"
                  \/ me.pc = "set_onboarding"
          IN  on_welcome_path =>
                 /\ llm_calls' = llm_calls
                 /\ turns' = turns
                 /\ llm_activity' = llm_activity
                 /\ users_tasks' = users_tasks
                 /\ th'["loop"].pc \in {"send_log", "send_bridge", "set_onboarding", "idle"}
                 /\ me.pc = "set_onboarding" =>
                       /\ store'[me.user_id].status = "onboarding"
                       /\ th'["loop"].pc = "idle"]_vars

\* the first message of an unknown user has been handled: the welcome is the
\* only answer, the user is onboarding, the model was never called
C19_Witness ==
    /\ Len(requests) = 1
    /\ requests[1].status = "new" /\ requests[1].outcome = "welcome"
    /\ Handled(1)
    /\ messages = <<UserLogEntry(U1, requests[1].message),
                    AssistantLogEntry(U1, WelcomeText("en"))>>
    /\ store[U1].status = "onboarding"
    /\ llm_calls = <<>> /\ turns = <<>> /\ users_tasks = <<>>

(***************************************************************************)
(* Properties of the tool audit log.                                       *)
(***************************************************************************)
\* C20: for every invocation of a registered tool in a finished turn the
\* tool audit log holds a record of that turn's user with the invocation's
\* tool name and a result, whether its arguments were valid or not.
C20_EveryAttemptAudited ==
    \A k \in 1..Len(turns) :
       LET reg == Registered(turns[k].tool_calls)
       IN  \A i \in 1..Len(reg) :
              \E a \in Executed(k, reg[i]) :
                 /\ llm_activity[a].user_id = turns[k].user_id
                 /\ llm_activity[a].tool_result.kind \in {"result", "error"}

\* C31: the scan raises a trigger event only for a user who, at the moment
\* the event is raised, is active with a timezone, whose local weekday is
\* an allowed ritual day, whose local HH:MM is the time of that ritual and
\* whose record does not hold the local date as that ritual's last trigger.
C31_EventRaisedOnlyWhenDue ==
    [][ (/\ Len(events') = Len(events) + 1
         /\ events'[Len(events')].source = "scheduler") =>
           LET e == events'[Len(events')]
           IN  /\ e.user_id \in DOMAIN store
               /\ RitualDueAt(store[e.user_id], e.trigger_type, now) ]_vars

\* C32: an invocation of a tool that is not registered is skipped: the step
\* that meets it adds nothing to the transcript and executes nothing, and
\* the turn goes on; in every finished turn that held such an invocation
\* the second model call was made, its transcript has no entry for the
\* unknown invocation and one entry for each registered invocation.
C32_UnknownToolIsSkipped ==
    /\ [](\A k \in 1..Len(turns) : \A i \in 1..Len(turns[k].tool_calls) :
            turns[k].tool_calls[i].name \notin AVAILABLE_TOOLS =>
               /\ Cardinality(SecondCalls(k)) = 1
               /\ \A c \in SecondCalls(k) :
                     LET entries == ToolEntries(llm_calls[c].messages)
                     IN  /\ \A e \in 1..Len(entries) :
                               entries[e].tool_call_id # turns[k].tool_calls[i].id
                         /\ \A j \in 1..Len(turns[k].tool_calls) :
                               turns[k].tool_calls[j].name \in AVAILABLE_TOOLS =>
                                  \E e \in 1..Len(entries) :
                                     entries[e].tool_call_id = turns[k].tool_calls[j].id)
    /\ [][ (/\ th["loop"].pc = "tools" /\ th["loop"].calls # <<>>
            /\ Head(th["loop"].calls).name \notin AVAILABLE_TOOLS
            /\ th'["loop"] # th["loop"]) =>
               /\ th'["loop"].pc = "tools"
               /\ th'["loop"].transcript = th["loop"].transcript
               /\ th'["loop"].calls = Tail(th["loop"].calls)
               /\ UNCHANGED <<users_tasks, store, next_uuid, llm_activity, messages,
                              llm_calls, turns>> ]_vars

\* a finished turn whose first invocation named an unknown tool and whose
\* second invocation created a task
C32_Witness ==
    \E k \in 1..Len(turns) :
       /\ Len(turns[k].tool_calls) >= 2
       /\ turns[k].tool_calls[1].name \notin AVAILABLE_TOOLS
       /\ turns[k].tool_calls[2].name = "create_task"
       /\ \E a \in Executed(k, turns[k].tool_calls[2]) : llm_activity[a].tool_result.success
       /\ Cardinality(SecondCalls(k)) = 1

IsCommandText(text) == Strip(text) # <<>> /\ Head(Strip(text)) = "/"

StatusOf(st, u) == IF u \in DOMAIN st THEN st[u].status ELSE "new"

\* C33: an inbound text that starts with "/" goes to the command table for
\* a user of any status: its request is answered as a command or as a
\* system event and never routed by status; the dispatch step yields
\* either one reply (the "unknown command" reply for a command outside the
\* table) or one trigger event; while the request is handled the user's
\* status stays what it was, and a request answered by a reply calls no
\* model and is finished once that one reply is with the bridge.
C33_CommandsBypassTheModelPath ==
    /\ [](\A r \in 1..Len(requests) :
            (/\ IsCommandText(requests[r].message)
             /\ requests[r].outcome \notin {"accepted", "rejected", "TypeError", "dropped"}) =>
                /\ requests[r].outcome \in {"command", "system_event"}
                /\ requests[r].status = "")
    /\ [][ LET me == th["loop"]
               after == th'["loop"]
           IN  (/\ me.pc # "idle" /\ after # me
                /\ IsCommandText(me.message)) =>
                  /\ StatusOf(store', me.user_id) = StatusOf(store, me.user_id)
                  /\ me.pc = "dispatch" =>
                        LET command == Lower(Split(Strip(me.message))[1])
                        IN  \/ /\ after.pc = "send_log" /\ after.out # <<>>
                               /\ after.after = "idle"
                               /\ events' = events
                               /\ command \notin {CmdHelp, CmdMorning, CmdEvening,
                                                  <<"/", "l", "i", "s", "t">>,
                                                  <<"/", "m", "e", "m", "o", "r", "y">>,
                                                  <<"/", "c", "l", "e", "a", "r">>} =>
                                     after.out = UnknownCommandText(command)
                            \/ /\ after.pc = "ise_get_agent" /\ after.after = "idle"
                               /\ command \in {CmdMorning, CmdEvening}
                               /\ Len(events') = Len(events) + 1
                               /\ events'[Len(events')].source = "command"
                               /\ events'[Len(events')].user_id = me.user_id
                  /\ me.pc # "dispatch" => events' = events
                  /\ requests[me.req].outcome = "command" =>
                        /\ llm_calls' = llm_calls /\ turns' = turns
                        /\ me.pc = "send_log" => Len(messages') = Len(messages) + 1
                        /\ me.pc = "send_bridge" => after.pc = "idle" ]_vars

\* a user of status new has sent "/x" and has the "unknown command" reply;
\* the status is still new and no welcome was sent
C33_Witness ==
    /\ Len(requests) = 1 /\ requests[1].outcome = "command"
    /\ th["loop"].pc = "idle"
    /\ U1 \in DOMAIN store /\ store[U1].status = "new"
    /\ messages = <<UserLogEntry(U1, <<"/", "x">>),
                    AssistantLogEntry(U1, UnknownCommandText(<<"/", "x">>))>>
    /\ events = <<>> /\ llm_calls = <<>>

\* C34: the two ritual checks of a user are independent: once the scan is
\* through with a user whose morning time and evening time both equal the
\* local minute it read, on an allowed weekday and with neither date
\* recorded, both events of that local date are raised and both dates are
\* recorded; and the step that records the date of one ritual leaves the
\* recorded date of the other ritual as it was.
C34_MorningAndEveningAreIndependent ==
    /\ [](LET me == th["ritual"]
          IN  (/\ me.pc = "r_user" /\ me.user_id # <<>>
               /\ WeekdayOf(me.today) \in RitualDays(me.snap[me.user_id])
               /\ me.hm = me.snap[me.user_id].morning_muster_time
               /\ me.hm = me.snap[me.user_id].evening_reflection_time
               /\ me.snap[me.user_id].last_morning_trigger_date # me.today
               /\ me.snap[me.user_id].last_evening_trigger_date # me.today) =>
                 /\ ScheduledEvents(me.user_id, "morning_muster", me.today) # {}
                 /\ ScheduledEvents(me.user_id, "evening_reflection", me.today) # {}
                 /\ store[me.user_id].last_morning_trigger_date = me.today
                 /\ store[me.user_id].last_evening_trigger_date = me.today)
    /\ [][ LET me == th["ritual"]
           IN  /\ (me.pc = "r_morning_update" /\ th'["ritual"] # me) =>
                     /\ store'[me.user_id].last_morning_trigger_date = me.today
                     /\ store'[me.user_id].last_evening_trigger_date =
                           store[me.user_id].last_evening_trigger_date
               /\ (me.pc = "r_evening_update" /\ th'["ritual"] # me) =>
                     /\ store'[me.user_id].last_evening_trigger_date = me.today
                     /\ store'[me.user_id].last_morning_trigger_date =
                           store[me.user_id].last_morning_trigger_date ]_vars

\* the scan has raised both rituals of user "1" for one local date
C34_Witness ==
    LET me == th["ritual"]
    IN  /\ me.pc = "r_user" /\ me.user_id = U1
        /\ me.hm = <<23, 0>>
        /\ me.snap[U1].morning_muster_time = me.snap[U1].evening_reflection_time
        /\ me.snap[U1].last_morning_trigger_date = NoDate
        /\ me.snap[U1].last_evening_trigger_date = NoDate
        /\ Len(events) = 2
        /\ events[1] = TriggerEvent(U1, "morning_muster", me.today)
        /\ events[2] = TriggerEvent(U1, "evening_reflection", me.today)
        /\ store[U1].last_morning_trigger_date = me.today
        /\ store[U1].last_evening_trigger_date = me.today

\* C35: the message list of the first model call of a turn for an inbound
\* user message starts with the system message and holds the inbound
\* message once, as its last entry.
C35_InboundMessageSubmittedOnce ==
    [][ (/\ th["loop"].pc = "agent_start" /\ th["loop"].src = "inbound"
         /\ Len(llm_calls') = Len(llm_calls) + 1) =>
           LET submitted == llm_calls'[Len(llm_calls')].messages
               current == Entry("user", "", "", th["loop"].message, NoResult, <<>>)
           IN  /\ submitted[1].role = "system"
               /\ submitted[Len(submitted)] = current
               /\ Cardinality({i \in 1..Len(submitted) : submitted[i] = current}) = 1 ]_vars

\* C36: items are owned by one user: every item keeps its item_id and its
\* user_id in every step, and a tool call executed in a turn of a user
\* changes no field of an item of another user.
C36_OwnershipIsolation ==
    [][ \A id \in DOMAIN users_tasks :
           /\ id \in DOMAIN users_tasks'
           /\ users_tasks'[id].item_id = users_tasks[id].item_id
           /\ users_tasks'[id].user_id = users_tasks[id].user_id
           /\ (/\ th["loop"].pc = "tools" /\ th'["loop"] # th["loop"]
               /\ users_tasks[id].user_id # th["loop"].user_id) =>
                 users_tasks'[id] = users_tasks[id] ]_vars

\* C37: no update of an item is lost: when the reminder scan writes the
\* completed status of an item, every other field of the stored item keeps
\* the value it has at that moment, so a change a turn made to another
\* field in the meantime is still carried by the stored item.
C37_NoLostUpdate ==
    [][ (/\ th["reminder"].pc = "rem_update_write"
         /\ th'["reminder"] # th["reminder"]) =>
           LET id == th["reminder"].existing.item_id
           IN  id \in DOMAIN users_tasks =>
                 /\ users_tasks'[id].status = "completed"
                 /\ \A c \in DOMAIN users_tasks[id] \ {"status", "updated_at"} :
                        users_tasks'[id][c] = users_tasks[id][c] ]_vars

\* C38: an internal trigger event, raised by the scheduler or by /morning
\* or /evening, goes on to the model only when the user's status is active
\* at the moment the event is handled; for any other status the event is
\* dropped: the handler returns, no model call is made, no message is sent
\* or queued, and the user's record (its status included) and the items
\* stay as they are.  Looking the user up changes no status and no item.
C38_EventNeedsActiveStatus ==
    [][ \A t \in {"loop", "ritual"} :
          (/\ th[t].pc \in {"ise_get_agent", "ise_check"}
           /\ th'[t] # th[t]) =>
             LET u == th[t].user_id
             IN  /\ th'[t].pc = "agent_start" =>
                       th[t].pc = "ise_check" /\ StatusOf(store, u) = "active"
                 /\ StatusOf(store', u) = StatusOf(store, u)
                 /\ users_tasks' = users_tasks
                 /\ llm_calls' = llm_calls /\ turns' = turns
                 /\ messages' = messages /\ outgoing' = outgoing /\ pushed' = pushed
                 /\ (th[t].pc = "ise_check" /\ StatusOf(store, u) # "active") =>
                       /\ th'[t].pc = th[t].after
                       /\ store' = store ]_vars

\* a user in onboarding has sent /morning: the event was raised and its
\* handling has ended with no model call and no message out
C38_Witness ==
    /\ Len(requests) = 1 /\ requests[1].outcome = "system_event"
    /\ th["loop"].pc = "idle"
    /\ Len(events) = 1 /\ events[1].user_id = U1 /\ events[1].source = "command"
    /\ U1 \in DOMAIN store /\ store[U1].status = "onboarding"
    /\ llm_calls = <<>> /\ Sends = {} /\ outgoing = <<>>

\* C39: the reminder scan marks a reminder completed only after the
\* notification for it was handed to the bridge: the scan enters its
\* update_item call for a reminder only by the step in which send_message
\* hands the notification to the bridge.
C39_CompletedOnlyAfterHandOver ==
    [][ (/\ th'["reminder"].pc = "rem_update_read"
         /\ th["reminder"].pc # "rem_update_read") =>
           th["reminder"].pc = "send_bridge" ]_vars

\* C40: no user is sent the welcome more than once, however many messages
\* of that user arrive while the user is new: the handler of one message
\* runs to its end on the event loop before the handler of the next starts.
C40_WelcomeAtMostOnce ==
    \A raw \in RawUserIds :
       Cardinality(WelcomeSends(normalize_user_id(raw))) <= 1

\* two messages of one unknown user have been handled: the first was
\* answered by the welcome, the second found the user in onboarding
C40_Witness ==
    /\ Len(requests) = 2 /\ Handled(2)
    /\ normalize_user_id(requests[1].user_id) = U1
    /\ normalize_user_id(requests[2].user_id) = U1
    /\ requests[1].status = "new" /\ requests[1].outcome = "welcome"
    /\ requests[2].status = "onboarding"
    /\ Cardinality(WelcomeSends(U1)) = 1
    /\ Len(messages) = 4

====
